---- MODULE Spec2Model ----
(***************************************************************************)
(* A model of the TYViewer model-decoding pipeline: the strip/topology     *)
(* reconstructor and render-mesh construction of Content::load<Model>,     *)
(* the MDL2/MDL3 header decoders, the MDG geometry decoder and the         *)
(* Application's model list.                                               *)
(*                                                                         *)
(* Floats are modelled as integers counted in units of 1e-6, so that the   *)
(* position tolerance 0.00001f is the integer Tolerance.  Index values are *)
(* 0-based as in the source; TLA+ sequences are 1-based, so vertices[i]    *)
(* of the source is vertices[i + 1] here.                                  *)
(***************************************************************************)
EXTENDS Integers, Sequences, FiniteSets, TLC

VARIABLES
    \* ---- Content::load<Model>: construction of one render-mesh
    buildPath,            \* which branch built the mesh ("idle" before any)
    vertices,             \* std::vector<Vertex> vertices of the mesh
    indices,              \* std::vector<unsigned int> indices of the mesh
    stripVertexCounts,    \* MeshData::stripVertexCounts of the source mesh
    segments,             \* generation 1: vertex count of each segment
    startIndex,           \* appendTriangleStripIndices argument
    count,                \* appendTriangleStripIndices argument
    degenerateCount,      \* size_t& degenerateCount
    totalTriangleCount,   \* size_t& totalTriangleCount
    degenerateUvMismatch, \* size_t& degenerateUvMismatch
    stripBreaks,          \* size_t& stripBreaks
    \* ---- Application / Content / Gui: the displayed model
    archives,             \* Content::archives[2]: null, or the files they hold
    activeArchiveIndex,   \* Content::activeArchiveIndex
    contentModels,        \* Content::models: the cache, keyed by name
    models,               \* Application::models
    currentModelArchiveIndex, \* Application::currentModelArchiveIndex
    currentModelName,     \* Application::currentModelName
    guiCurrentModel,      \* Gui::currentModel
    guiCurrentModelName,  \* Gui::currentModelName
    loadCalls,            \* number of Application::loadModel calls so far
    lastLoaded,           \* what the last Content::load<Model> returned
    \* ---- mdg: one call of loadWithMDL3Metadata
    charSigned,           \* the build: whether plain char is signed
    mdgPhase,             \* "idle", "returned", or "running" for ever
    geometry,             \* the geometry buffer (buffer, size)
    mdl3Metadata,         \* the MDL3Metadata and its lookup table
    meshes,               \* mdg::meshes
    mdgResult,            \* the value the call returned
    parsersRun,           \* the parsers the call entered, in order
    pcFailure,            \* why parseMDGPC gave up, "none" if it did not
    globalVertexDataStart,\* parseMDGPC: start of the vertex block
    meshOrder,            \* parseMDGPC: unique headers, first-seen order
    parsedMeshes,         \* parseMDGPC: the headers parsed, in parse order
    \* ---- mdl2: one call of loadTY2
    mdlPhase,             \* "idle" or "returned"
    mdlBuffer,            \* the header buffer handed to loadTY2
    mdl,                  \* the mdl2 object
    mdlLoaded,            \* the value loadTY2 returned
    mdl3Returned,         \* the value loadTY2MDL3 returned
    legacyEntered,        \* whether loadTY2 went on to the legacy layout
    parsedOffsets,        \* offsets handed to parse_subobject, in order
    \* ---- Content::load<Model>: decoders and geometry source of one load
    hdrPhase,             \* "idle", "returned", "unwinding" or "running"
    isTY2,                \* whether the archive holds <basename>.mdg
    decoderCalls,         \* the header decoders called, in order
    escaped,              \* whether an exception left Content::load<Model>
    gen1Call,             \* the call of mdl2::load, if there was one
    mdgFile,              \* the .mdg companion
    produced,             \* the Model returned (source "none": NULL)
    \* ---- Archive: one archive object and the file it is loaded from
    arcPhase,             \* "idle" or "loaded" (Archive::load has returned)
    disk,                 \* the file at the path, as Archive::load finds it
    arc,                  \* the Archive object: size, version, files
    arcResult,            \* the value Archive::load returned
    query,                \* the last getFile / getFileData and what it gave
    \* ---- Application::initialize and the assets Content hands out
    startPhase,           \* "idle", "running" (main loop) or "terminated"
    startLoaded,          \* ty1Loaded, ty2Loaded
    shader,               \* Application::shader
    basic,                \* Application::basic
    shaders,              \* Content::shaders
    textures,             \* Content::textures
    lastTexture,          \* the last Content::load<Texture> and its result
    \* ---- mdg::parseMDGPC: what one mesh header's parse works on
    stripDescriptors,     \* the low bytes of the strip descriptors read
    pcPhase,              \* "idle" or "decoded" (the vertex block was read)
    rawUvs,               \* rawUvs, V already flipped
    parsedVertices,       \* parsed.vertices: position and texcoord
    useShiftedUvs,        \* whether the +1 UV shift was selected
    \* ---- mdg::parseStrip, default format: the bone indices of one vertex
    boneInput,            \* the bytes read and the anim-node lists
    skin,                 \* vertices[i].skin[1] and skin[2]
    \* ---- the reads loadWithMDL3Metadata makes of the geometry buffer
    readSite,             \* "idle", "detect", "header" or "strip"
    readSize,             \* size, the length of the buffer
    readHighest,          \* the highest index read, NoIndex for none
    \* ---- Gui: the model menu
    dropdownOpen,         \* Gui::dropdownOpen
    submenuOpen,          \* Gui::submenuOpen
    hoveredCategory,      \* 0 = none, 1 = TY1, 2 = TY2
    hoveredSubmenuItem,   \* position in the filtered list, -1 for none
    activeSearchCategory, \* 0 = none, 1 = TY1, 2 = TY2
    ty1Search,            \* the search strings, as sequences of characters
    ty2Search,
    ty1Models,            \* the model entries of each category
    ty2Models,
    mouse,                \* <<mouseX, mouseY>>
    hovering,             \* Gui::hovering
    dropdownRect,         \* Gui::dropdownRect
    submenuRect           \* Gui::submenuRect

buildVars == <<buildPath, vertices, indices, stripVertexCounts, segments,
               startIndex, count, degenerateCount, totalTriangleCount,
               degenerateUvMismatch, stripBreaks>>

appVars == <<archives, activeArchiveIndex, contentModels, models,
             currentModelArchiveIndex, currentModelName, guiCurrentModel,
             guiCurrentModelName, loadCalls, lastLoaded>>

mdgVars == <<charSigned, mdgPhase, geometry, mdl3Metadata, meshes, mdgResult,
             parsersRun, pcFailure, globalVertexDataStart, meshOrder,
             parsedMeshes>>

mdlVars == <<mdlPhase, mdlBuffer, mdl, mdlLoaded, mdl3Returned, legacyEntered,
             parsedOffsets>>

hdrVars == <<hdrPhase, isTY2, decoderCalls, escaped, gen1Call, mdgFile, produced>>

arcVars == <<arcPhase, disk, arc, arcResult, query>>

startVars == <<startPhase, startLoaded, shader, basic, shaders, textures,
               lastTexture>>

pcVars == <<stripDescriptors, pcPhase, rawUvs, parsedVertices, useShiftedUvs>>

skinVars == <<boneInput, skin>>

readVars == <<readSite, readSize, readHighest>>

guiVars == <<dropdownOpen, submenuOpen, hoveredCategory, hoveredSubmenuItem,
             activeSearchCategory, ty1Search, ty2Search, ty1Models, ty2Models,
             mouse, hovering, dropdownRect, submenuRect>>

laterVars == <<hdrVars, arcVars, startVars, pcVars, skinVars, readVars, guiVars>>

decoderVars == <<mdgVars, mdlVars, laterVars>>

vars == <<buildVars, appVars, decoderVars>>

-----------------------------------------------------------------------------
(* Bounds of the model *)

MaxVerts == 6
MaxStrips == 2
MaxSegs == 3
MaxSegLen == 4
MaxLoads == 3

(* Program constants *)

Tolerance == 10

-----------------------------------------------------------------------------
(* Helpers *)

SeqsUpTo(S, n) == UNION {[1..k -> S] : k \in 0..n}

Abs(x) == IF x < 0 THEN -x ELSE x

RECURSIVE SumSeq(_)
SumSeq(s) == IF s = <<>> THEN 0 ELSE s[1] + SumSeq(Tail(s))

(* Vertex values the inputs are drawn from: two far-apart positions and a  *)
(* position within tolerance of the first that has another texcoord.       *)
VertexList ==
    << [position |-> <<0, 0, 0>>,       texcoord |-> <<0, 0>>],
       [position |-> <<4, 0, 0>>,       texcoord |-> <<500000, 0>>],
       [position |-> <<1000000, 0, 0>>, texcoord |-> <<0, 0>>] >>

VertexValues == {VertexList[k] : k \in 1..Len(VertexList)}

-----------------------------------------------------------------------------
(* Strip/topology reconstructor: the lambdas of Content::load<Model> *)

isSamePosition(a, b) ==
    /\ Abs(a.position[1] - b.position[1]) < Tolerance
    /\ Abs(a.position[2] - b.position[2]) < Tolerance
    /\ Abs(a.position[3] - b.position[3]) < Tolerance

isSameUv(a, b) ==
    /\ Abs(a.texcoord[1] - b.texcoord[1]) < Tolerance
    /\ Abs(a.texcoord[2] - b.texcoord[2]) < Tolerance

(* The out-parameters of appendTriangleStripIndices, as one record. *)
StripAcc(ind, deg, tot, uvm, brk) ==
    [indices |-> ind, degenerateCount |-> deg, totalTriangleCount |-> tot,
     degenerateUvMismatch |-> uvm, stripBreaks |-> brk]

EmptyAcc == StripAcc(<<>>, 0, 0, 0, 0)

(* StripWindow with the pushed indices counted from 1 instead of 0. *)
StripWindowOneBased(verts, acc, start, i) ==
    LET i0 == start + i
        i1 == start + i + 1
        i2 == start + i + 2
        tri == IF i % 2 = 0 THEN <<i0 + 1, i1 + 1, i2 + 1>>
                            ELSE <<i1 + 1, i0 + 1, i2 + 1>>
    IN  [acc EXCEPT !.indices = @ \o tri]

(* One iteration of the loop of appendTriangleStripIndices: the window     *)
(* (i0, i1, i2) is classified, counted when degenerate, and its three      *)
(* indices are pushed with the winding of the parity of i.                 *)
StripWindow(verts, acc, start, i) ==
    LET i0 == start + i
        i1 == start + i + 1
        i2 == start + i + 2
        deg01 == isSamePosition(verts[i0 + 1], verts[i1 + 1])
        deg12 == isSamePosition(verts[i1 + 1], verts[i2 + 1])
        deg02 == isSamePosition(verts[i0 + 1], verts[i2 + 1])
        deg == deg01 \/ deg12 \/ deg02
        mismatch == \/ (deg01 /\ ~isSameUv(verts[i0 + 1], verts[i1 + 1]))
                    \/ (deg12 /\ ~isSameUv(verts[i1 + 1], verts[i2 + 1]))
                    \/ (deg02 /\ ~isSameUv(verts[i0 + 1], verts[i2 + 1]))
        tri == IF i % 2 = 0 THEN <<i0, i1, i2>> ELSE <<i1, i0, i2>>
    IN  StripAcc(acc.indices \o tri,
                 acc.degenerateCount + (IF deg THEN 1 ELSE 0),
                 acc.totalTriangleCount,
                 acc.degenerateUvMismatch + (IF deg /\ mismatch THEN 1 ELSE 0),
                 acc.stripBreaks + (IF deg /\ mismatch THEN 1 ELSE 0))

RECURSIVE StripLoop(_, _, _, _, _)
StripLoop(verts, acc, start, cnt, i) ==
    IF i + 2 < cnt
    THEN StripLoop(verts, StripWindow(verts, acc, start, i), start, cnt, i + 1)
    ELSE acc

appendTriangleStripIndices(verts, acc, start, cnt) ==
    IF cnt < 3 \/ start + cnt > Len(verts)
    THEN acc
    ELSE StripLoop(verts,
                   [acc EXCEPT !.totalTriangleCount = @ + (cnt - 2)],
                   start, cnt, 0)


(* deriveStripRanges: the while loop over i, with startIndex and ranges.   *)
RECURSIVE DeriveLoop(_, _, _, _)
DeriveLoop(verts, ranges, start, i) ==
    LET cnt == Len(verts) IN
    IF i + 1 < cnt
    THEN IF isSamePosition(verts[i + 1], verts[i + 2])
         THEN LET pushed == IF i + 1 > start
                            THEN Append(ranges, <<start, (i - start) + 1>>)
                            ELSE ranges
              IN  IF i + 3 < cnt /\ isSamePosition(verts[i + 3], verts[i + 4])
                  THEN LET s2 == i + 2
                           s3 == IF s2 + 1 < cnt
                                    /\ isSamePosition(verts[s2 + 1], verts[s2 + 2])
                                 THEN s2 + 1
                                 ELSE s2
                       IN  DeriveLoop(verts, pushed, s3, s3)
                  ELSE DeriveLoop(verts, pushed, i + 1, i + 1)
         ELSE DeriveLoop(verts, ranges, start, i + 1)
    ELSE IF start < cnt
         THEN Append(ranges, <<start, cnt - start>>)
         ELSE ranges

(* The loop without the merge of two duplicate pairs back-to-back. *)
RECURSIVE DeriveLoopNoMerge(_, _, _, _)
DeriveLoopNoMerge(verts, ranges, start, i) ==
    LET cnt == Len(verts) IN
    IF i + 1 < cnt
    THEN IF isSamePosition(verts[i + 1], verts[i + 2])
         THEN DeriveLoopNoMerge(verts,
                                Append(ranges, <<start, (i - start) + 1>>),
                                i + 1, i + 1)
         ELSE DeriveLoopNoMerge(verts, ranges, start, i + 1)
    ELSE IF start < cnt
         THEN Append(ranges, <<start, cnt - start>>)
         ELSE ranges

deriveStripRangesNoMerge(verts) == DeriveLoopNoMerge(verts, <<>>, 0, 0)

deriveStripRanges(verts) == DeriveLoop(verts, <<>>, 0, 0)

(* for (range : ranges) if (range.second >= 3) appendTriangleStripIndices *)
RECURSIVE AppendRanges(_, _, _)
AppendRanges(verts, acc, ranges) ==
    IF ranges = <<>>
    THEN acc
    ELSE LET r == ranges[1]
             next == IF r[2] >= 3
                     THEN appendTriangleStripIndices(verts, acc, r[1], r[2])
                     ELSE acc
         IN  AppendRanges(verts, next, Tail(ranges))

(* The accounting with the two connector lengths exchanged. *)
StripGapConnectorsSwapped(strips, n) ==
    LET stripSum == SumSeq(strips)
        stripCount == Len(strips)
        stripDegenerate2Sum ==
            stripSum + (IF stripCount > 0 THEN (stripCount - 1) * 2 ELSE 0)
        stripDegenerate1Sum ==
            stripSum + (IF stripCount > 0 THEN stripCount - 1 ELSE 0)
        countsIncludeDegenerates == (stripSum = n)
        countsExcludeDegenerates2 == (stripDegenerate2Sum = n)
        countsExcludeDegenerates1 ==
            ~countsExcludeDegenerates2 /\ stripDegenerate1Sum = n
    IN  [countsAlign |-> countsIncludeDegenerates \/ countsExcludeDegenerates2
                         \/ countsExcludeDegenerates1,
         gap |-> IF countsIncludeDegenerates THEN 0
                 ELSE IF countsExcludeDegenerates2 THEN 1
                 ELSE IF countsExcludeDegenerates1 THEN 2
                 ELSE 0]

(* The three accounting conventions of strip lengths against a vertex      *)
(* count: lengths include the connectors, or leave out 2 or 1 per joint.   *)
StripGap(strips, n) ==
    LET stripSum == SumSeq(strips)
        stripCount == Len(strips)
        stripDegenerate2Sum ==
            stripSum + (IF stripCount > 0 THEN (stripCount - 1) * 2 ELSE 0)
        stripDegenerate1Sum ==
            stripSum + (IF stripCount > 0 THEN stripCount - 1 ELSE 0)
        countsIncludeDegenerates == (stripSum = n)
        countsExcludeDegenerates2 == (stripDegenerate2Sum = n)
        countsExcludeDegenerates1 ==
            ~countsExcludeDegenerates2 /\ stripDegenerate1Sum = n
    IN  [countsAlign |-> countsIncludeDegenerates \/ countsExcludeDegenerates2
                         \/ countsExcludeDegenerates1,
         gap |-> IF countsIncludeDegenerates THEN 0
                 ELSE IF countsExcludeDegenerates2 THEN 2
                 ELSE IF countsExcludeDegenerates1 THEN 1
                 ELSE 0]

(* for (stripVertexCount : stripVertexCounts) ... startIndex += ...        *)
RECURSIVE AppendStrips(_, _, _, _, _)
AppendStrips(verts, acc, strips, start, gap) ==
    IF strips = <<>>
    THEN acc
    ELSE LET next == IF strips[1] >= 3
                     THEN appendTriangleStripIndices(verts, acc, start, strips[1])
                     ELSE acc
         IN  AppendStrips(verts, next, Tail(strips), start + strips[1] + gap, gap)

(* Index generation for one MDG mesh (the block is the same on the MDL3    *)
(* branch and on the branch without MDL3 metadata).                        *)
TriangulateMdgMesh(verts, strips) ==
    LET ranges == deriveStripRanges(verts)
        sg == StripGap(strips, Len(verts))
    IN  IF strips # <<>>
        THEN IF ~sg.countsAlign /\ ranges # <<>>
             THEN AppendRanges(verts, EmptyAcc, ranges)
             ELSE AppendStrips(verts, EmptyAcc, strips, 0, sg.gap)
        ELSE IF ranges # <<>>
             THEN AppendRanges(verts, EmptyAcc, ranges)
             ELSE appendTriangleStripIndices(verts, EmptyAcc, 0, Len(verts))

(* Generation 1: segment.vertices.size() - 2 is computed in size_t, so it  *)
(* wraps for a segment of fewer than 2 vertices; the unsigned int counter  *)
(* i then never reaches the bound and the loop pushes indices until the    *)
(* allocation fails.                                                       *)
Gen1LoopBound(n) ==
    IF n >= 2 THEN [wrapped |-> FALSE, value |-> n - 2]
              ELSE [wrapped |-> TRUE, value |-> 0]

SegmentVertices(n) == [k \in 1..n |-> VertexList[((k - 1) % Len(VertexList)) + 1]]

(* The index loop with the triple pushed in vertex order. *)
RECURSIVE Gen1TrianglesUnswapped(_, _, _)
Gen1TrianglesUnswapped(ind, triangleIndex, left) ==
    IF left = 0
    THEN ind
    ELSE Gen1TrianglesUnswapped(ind \o <<0 + triangleIndex, 1 + triangleIndex,
                                          2 + triangleIndex>>,
                                triangleIndex + 1, left - 1)

RECURSIVE Gen1Triangles(_, _, _)
Gen1Triangles(ind, triangleIndex, left) ==
    IF left = 0
    THEN ind
    ELSE Gen1Triangles(ind \o <<0 + triangleIndex, 2 + triangleIndex,
                                 1 + triangleIndex>>,
                       triangleIndex + 1, left - 1)

RECURSIVE Gen1Segments(_, _, _, _)
Gen1Segments(segs, verts, ind, triangleIndex) ==
    IF segs = <<>>
    THEN [diverged |-> FALSE, vertices |-> verts, indices |-> ind]
    ELSE LET n == segs[1]
             bound == Gen1LoopBound(n)
         IN  IF bound.wrapped
             THEN [diverged |-> TRUE, vertices |-> verts \o SegmentVertices(n),
                   indices |-> ind]
             ELSE Gen1Segments(Tail(segs), verts \o SegmentVertices(n),
                               Gen1Triangles(ind, triangleIndex, bound.value),
                               triangleIndex + bound.value + 2)

TriangulateGen1Mesh(segs) == Gen1Segments(segs, <<>>, <<>>, 0)


-----------------------------------------------------------------------------
(* The MDG geometry decoder (loader/assets/mdg.cpp)                        *)
(*                                                                         *)
(* A geometry buffer is described by what the decoder reads from it:       *)
(*   size             its length in bytes                                  *)
(*   markers          the offsets at which the bytes 00 80 02 6C stand     *)
(*   strips           per marker, the vertex count byte and the format     *)
(*                    marker of the strip that follows it                  *)
(*   headers          the mesh headers, by offset                          *)
(*   validWindows     the offsets at which at least 4 of 5 consecutive     *)
(*                    48-byte records pass the position and normal test    *)
(*   genericParsable  the markers after which the fallback layout decodes  *)
(* A vertex is identified by the offset its record is read from.           *)

PS2Pattern == <<0, 128, 2, 108>>

PS2SearchLimit == 1000
StripSearchSpan == 10000
VERTEX_STRIDE == 48
MaxStripCount == 1000
LookupSanityLimit == 1000000
Format6A == 106
Format65 == 101
SIZE_MAX == 2147483647
NoIndex == -1

Min(a, b) == IF a < b THEN a ELSE b

Max(a, b) == IF a > b THEN a ELSE b

MinOf(S) == CHOOSE x \in S : \A y \in S : x <= y

(* The element of a one-element set. Only({e(x) : x \in {v}}) is e(v) with *)
(* v worked out once, where LET would work it out at every use.            *)
Only(S) == CHOOSE x \in S : TRUE

(* size_t subtraction: a result below zero wraps to a huge value. *)
SizeSub(a, b) == IF a >= b THEN a - b ELSE SIZE_MAX

(* The value of a `char` that holds byte b, after integral promotion: on a *)
(* build whose char is signed, bytes from 0x80 on are negative.            *)
CharToInt(signed, b) == IF signed /\ b >= 128 THEN b - 256 ELSE b

(* buffer[p] == 0x00 && buffer[p+1] == 0x80 && buffer[p+2] == 0x02 &&      *)
(* buffer[p+3] == 0x6C: each char is compared with an int literal.         *)
MatchesLiterals(signed, geo, p) ==
    /\ p \in geo.markers
    /\ \A k \in 1..4 : CharToInt(signed, PS2Pattern[k]) = PS2Pattern[k]

(* The format detection loop of parseMDGWithObjectLookupTable. *)
DetectPS2(signed, geo) ==
    \E searchPos \in 0..(Min(SizeSub(geo.size, 3), PS2SearchLimit) - 1) :
        MatchesLiterals(signed, geo, searchPos)

(* findall(buffer, size, pattern, 4): chars are compared with chars, so    *)
(* every occurrence that fits in the buffer is found on every build.       *)
findall(geo) == {pos \in geo.markers : pos + 4 <= geo.size}

(* The lookup slots in the order of the loops: ti outer, ci inner. *)
LookupSlots(md) ==
    [k \in 1..(md.TextureCount * md.ComponentCount) |->
        [ti |-> (k - 1) \div md.ComponentCount,
         ci |-> (k - 1) % md.ComponentCount]]

(* lookupOffset + 4 > mdlOffset + 1000000 skips the slot. *)
LookupInRange(md, ti, ci) ==
    ~(md.ObjectLookupTable + (ti * 4 * md.ComponentCount) + (ci * 4) + 4
         > LookupSanityLimit)

(* from_bytes<int32_t>(mdlBuffer, lookupOffset) *)
ReadLookup(md, ti, ci) == md.lookup[(ti * md.ComponentCount) + ci + 1]

MeshData(verts, counts, ti, ci, ref) ==
    [vertices |-> verts, stripVertexCounts |-> counts,
     textureIndex |-> ti, componentIndex |-> ci,
     meshRef |-> ref]   \* meshRef: the header it was read for (bookkeeping)

StripResult(ok, offset) == [ok |-> ok, offset |-> offset]

(* mdg::parseStrip: the offset arithmetic and the size checks. *)
parseStrip(size, offset, vertexCount, formatMarker2) ==
    IF offset + (vertexCount * 12) > size THEN StripResult(FALSE, offset)
    ELSE
    LET afterPositions == offset + (vertexCount * 12) IN
    IF afterPositions + 2 > size THEN StripResult(FALSE, afterPositions)
    ELSE
    LET marker == afterPositions + 2 IN
    IF marker + 2 > size THEN StripResult(FALSE, marker)
    ELSE
    LET attrs == marker + 2
        attrResult ==
            IF formatMarker2 = Format6A
            THEN IF attrs + (vertexCount * 3) > size
                 THEN StripResult(FALSE, attrs)
                 ELSE LET shorts == attrs + (vertexCount * 4) + 4
                                      + (vertexCount % 4)
                      IN  IF shorts + (vertexCount * 4) > size
                          THEN StripResult(FALSE, shorts)
                          ELSE StripResult(TRUE, shorts + (vertexCount * 8))
            ELSE IF formatMarker2 = Format65
            THEN IF attrs + (vertexCount * 4) > size
                 THEN StripResult(FALSE, attrs)
                 ELSE StripResult(TRUE, attrs + (vertexCount * 8))
            ELSE IF attrs + (vertexCount * 4) > size
                 THEN StripResult(FALSE, attrs)
                 ELSE LET shorts == attrs + (vertexCount * 4) + 4
                      IN  IF shorts + (vertexCount * 8) > size
                          THEN StripResult(FALSE, shorts)
                          ELSE StripResult(TRUE, shorts + (vertexCount * 8))
    IN
    IF ~attrResult.ok THEN attrResult
    ELSE IF attrResult.offset + 4 > size
    THEN StripResult(FALSE, attrResult.offset)
    ELSE
    LET colours == attrResult.offset + 4 IN
    IF colours + (vertexCount * 4) > size THEN StripResult(FALSE, colours)
    ELSE StripResult(TRUE, colours + (vertexCount * 4))

(* The search for the next 00 80 02 6C from currentOffset (PS2 strips). *)
FindStripPattern(signed, geo, currentOffset) ==
    LET searchLimit == Min(currentOffset + StripSearchSpan,
                           SizeSub(geo.size, 3))
        found == {p \in geo.markers :
                     /\ p >= currentOffset
                     /\ p < searchLimit
                     /\ MatchesLiterals(signed, geo, p)}
    IN  IF found = {} THEN SIZE_MAX ELSE MinOf(found)

(* One strip of a PS2 mesh record, from the marker at patternPos: the     *)
(* offset after it and its vertices, or ok = FALSE where the code breaks.  *)
PS2Strip(geo, patternPos) ==
    LET afterPattern == patternPos + 4
        vertexCount == geo.strips[patternPos].vertexCount
        afterPadding == afterPattern + 1 + 3
        positions == afterPadding + 32 + 39
    IN
    IF afterPattern + 1 > geo.size THEN [ok |-> FALSE]
    ELSE IF afterPadding + 32 > geo.size THEN [ok |-> FALSE]
    ELSE IF afterPadding + 32 + 39 > geo.size THEN [ok |-> FALSE]
    ELSE Only({IF ~strip.ok THEN [ok |-> FALSE]
               ELSE [ok |-> TRUE, offset |-> strip.offset,
                     vertices |-> [i \in 1..vertexCount |->
                                      positions + ((i - 1) * 12)]] :
               strip \in {parseStrip(geo.size, positions, vertexCount,
                                     geo.strips[patternPos].formatMarker2)}})

(* The strip loop of one PS2 mesh record: every early exit is a `break`    *)
(* that leaves the remaining strips of the record undecoded.               *)
RECURSIVE PS2StripLoop(_, _, _, _, _, _, _, _)
PS2StripLoop(signed, geo, ti, ci, meshRef, si, currentOffset, acc) ==
    IF si >= geo.headers[meshRef].stripCount THEN acc
    ELSE Only({
        IF patternPos = SIZE_MAX THEN acc
        ELSE Only({
            IF ~strip.ok THEN acc
            ELSE PS2StripLoop(signed, geo, ti, ci, meshRef, si + 1,
                    strip.offset,
                    Append(acc, MeshData(strip.vertices, <<>>, ti, ci,
                                         meshRef))) :
            strip \in {PS2Strip(geo, patternPos)}}) :
        patternPos \in {FindStripPattern(signed, geo, currentOffset)}})

ChainResult(diverges, meshList) == [diverges |-> diverges, meshes |-> meshList]

(* while (meshRef != 0) of the PS2 path. Nothing but meshRef decides how   *)
(* the loop goes on, so a meshRef that comes back in the same walk means   *)
(* the loop never ends: walked holds the records of this walk, and the     *)
(* result says `diverges` when the walk returns to one of them.            *)
RECURSIVE PS2Chain(_, _, _, _, _, _, _)
PS2Chain(signed, geo, ti, ci, meshRef, walked, acc) ==
    IF meshRef = 0 THEN ChainResult(FALSE, acc)
    ELSE IF meshRef < 0 \/ meshRef >= geo.size THEN ChainResult(FALSE, acc)
    ELSE IF meshRef \in walked THEN ChainResult(TRUE, acc)
    ELSE Only({PS2Chain(signed, geo, ti, ci, next, walked \cup {meshRef},
                        withStrips) :
               withStrips \in {PS2StripLoop(signed, geo, ti, ci, meshRef, 0,
                                            meshRef + 12, acc)},
               next \in {IF meshRef + 12 + 4 <= geo.size
                         THEN geo.headers[meshRef].next ELSE 0}})

RECURSIVE PS2Slots(_, _, _, _, _)
PS2Slots(signed, geo, md, k, acc) ==
    IF k > Len(LookupSlots(md)) THEN ChainResult(FALSE, acc)
    ELSE
    LET slot == LookupSlots(md)[k] IN
    IF ~LookupInRange(md, slot.ti, slot.ci)
    THEN PS2Slots(signed, geo, md, k + 1, acc)
    ELSE Only({IF chain.diverges THEN chain
               ELSE PS2Slots(signed, geo, md, k + 1, chain.meshes) :
               chain \in {PS2Chain(signed, geo, slot.ti, slot.ci,
                                   ReadLookup(md, slot.ti, slot.ci), {},
                                   acc)}})

(* The PS2 part of parseMDGWithObjectLookupTable. *)
parsePS2(signed, geo, md) ==
    Only({[diverges |-> r.diverges, ok |-> r.meshes # <<>>,
           meshes |-> r.meshes] :
          r \in {PS2Slots(signed, geo, md, 1, <<>>)}})

(* readNextMesh: the next-chain pointer at +0xC, or 0 when it is outside. *)
readNextMesh(geo, meshRef) ==
    IF meshRef <= 0 THEN 0
    ELSE IF meshRef + 12 + 4 > geo.size THEN 0
    ELSE geo.headers[meshRef].next

(* The walk that finds where the mesh headers end; this one keeps a set of *)
(* visited records and leaves a chain when it meets one again.             *)
RECURSIVE HeaderEndChain(_, _, _)
HeaderEndChain(geo, meshRef, st) ==
    IF meshRef = 0 THEN st
    ELSE IF meshRef < 0 \/ meshRef >= geo.size THEN st
    ELSE IF meshRef \in st.visitedMeshes THEN st
    ELSE
    LET headerEnd == meshRef + 16 + (geo.headers[meshRef].stripCount * 2) IN
    Only({IF meshRef + 12 + 4 > geo.size THEN st2
          ELSE HeaderEndChain(geo, geo.headers[meshRef].next, st2) :
          st2 \in {[visitedMeshes |-> st.visitedMeshes \cup {meshRef},
                    maxHeaderEnd |-> Max(st.maxHeaderEnd, headerEnd)]}})

RECURSIVE HeaderEndSlots(_, _, _, _)
HeaderEndSlots(geo, md, k, st) ==
    IF k > Len(LookupSlots(md)) THEN st
    ELSE
    LET slot == LookupSlots(md)[k] IN
    IF ~LookupInRange(md, slot.ti, slot.ci)
    THEN HeaderEndSlots(geo, md, k + 1, st)
    ELSE Only({HeaderEndSlots(geo, md, k + 1, st2) :
               st2 \in {HeaderEndChain(geo, ReadLookup(md, slot.ti, slot.ci),
                                       st)}})

(* The search for the global vertex block: the first 4-aligned step from   *)
(* searchStart at which the 5-record window passes and fits; 0 if none.    *)
FindGlobalVertexDataStart(geo, md) ==
    Only({
        LET searchStart == maxHeaderEnd - (maxHeaderEnd % 4)
            found == {o \in geo.validWindows :
                         /\ o >= searchStart
                         /\ (o - searchStart) % 4 = 0
                         /\ o + (VERTEX_STRIDE * 5) <= geo.size}
        IN  IF found = {} THEN 0 ELSE MinOf(found) :
        maxHeaderEnd \in
            {HeaderEndSlots(geo, md, 1, [visitedMeshes |-> {},
                                        maxHeaderEnd |-> 0]).maxHeaderEnd}})

(* if (seenMeshRefs.insert(meshRef).second) meshOrder.push_back(meshRef) *)
RememberAlways(st, meshRef) ==
    [st EXCEPT !.seenMeshRefs = @ \cup {meshRef},
               !.meshOrder = Append(@, meshRef)]

RememberMeshRef(st, meshRef) ==
    IF meshRef \in st.seenMeshRefs THEN st
    ELSE [st EXCEPT !.seenMeshRefs = @ \cup {meshRef},
                    !.meshOrder = Append(@, meshRef)]

(* Pass 1, one chain: while (meshRef != 0) with no exit on a record that   *)
(* was already seen; as in the PS2 walk, returning to a record of the same *)
(* walk means the loop never ends.                                         *)
RECURSIVE DiscoverChain(_, _, _, _)
DiscoverChain(geo, meshRef, walked, st) ==
    IF meshRef = 0 THEN st
    ELSE IF meshRef < 0 \/ meshRef >= geo.size THEN st
    ELSE IF meshRef \in walked THEN [st EXCEPT !.diverges = TRUE]
    ELSE Only({DiscoverChain(geo, next, walked \cup {meshRef}, st2) :
               next \in {readNextMesh(geo, meshRef)},
               st2 \in {RememberMeshRef(st, meshRef)}})

RECURSIVE DiscoverSlots(_, _, _, _)
DiscoverSlots(geo, md, k, st) ==
    IF k > Len(LookupSlots(md)) THEN st
    ELSE
    LET slot == LookupSlots(md)[k] IN
    IF ~LookupInRange(md, slot.ti, slot.ci)
    THEN DiscoverSlots(geo, md, k + 1, st)
    ELSE Only({IF chain.diverges THEN chain
               ELSE DiscoverSlots(geo, md, k + 1, chain) :
               chain \in {DiscoverChain(geo, ReadLookup(md, slot.ti, slot.ci),
                                        {}, st)}})

(* The strip counts of a header are stored when they align with its vertex *)
(* count: as they are, or with 2 or 1 joining vertices between strips.     *)
CountsAlign(counts, totalVertices) ==
    LET stripSum == SumSeq(counts)
        sc == Len(counts)
        stripDegenerate2Sum == stripSum + (IF sc > 0 THEN (sc - 1) * 2 ELSE 0)
        stripDegenerate1Sum == stripSum + (IF sc > 0 THEN sc - 1 ELSE 0)
    IN  \/ stripSum = totalVertices
        \/ stripDegenerate2Sum = totalVertices
        \/ (stripDegenerate2Sum # totalVertices
              /\ stripDegenerate1Sum = totalVertices)

ParsedPCMesh(ref, offset, verts, counts, valid, total, stripCnt) ==
    [meshRef |-> ref,
     vertexDataOffset |-> offset,  \* cursorVertexDataOffset when it was read
     vertices |-> verts, stripVertexCounts |-> counts,
     validForRender |-> valid, totalVertices |-> total,
     stripCount |-> stripCnt]

Pass2Result(ok, failure, parsed) ==
    [ok |-> ok, failure |-> failure, parsedMeshes |-> parsed]

(* Pass 2: every unique header once, in meshOrder, one shared cursor. The  *)
(* tests on the vertex values (3 non-zero positions, not box-like) are the *)
(* header's `renderable` flag.                                             *)
RECURSIVE ParseUnique(_, _, _, _, _)
ParseUnique(geo, order, k, cursorVertexDataOffset, parsed) ==
    IF k > Len(order) THEN Pass2Result(TRUE, "none", parsed)
    ELSE
    LET meshRef == order[k] IN
    IF meshRef < 0 \/ meshRef >= geo.size
    THEN ParseUnique(geo, order, k + 1, cursorVertexDataOffset, parsed)
    ELSE
    LET h == geo.headers[meshRef] IN
    IF h.stripCount > MaxStripCount
    THEN Pass2Result(FALSE, "stripCount", parsed)
    ELSE
    LET totalVertices == h.baseVertexCount + h.duplicateVertexCount
        expectedDataSize == totalVertices * VERTEX_STRIDE
    IN
    IF expectedDataSize = 0
    THEN ParseUnique(geo, order, k + 1, cursorVertexDataOffset,
            Append(parsed, ParsedPCMesh(meshRef, cursorVertexDataOffset, <<>>,
                                        <<>>, FALSE, totalVertices,
                                        h.stripCount)))
    ELSE IF cursorVertexDataOffset + expectedDataSize > geo.size
    THEN Pass2Result(FALSE, "short", parsed)
    ELSE
    LET counts == IF h.stripCount > 0
                       /\ meshRef + 16 + (h.stripCount * 2) <= geo.size
                  THEN h.descriptors ELSE <<>>
        verts == [i \in 1..totalVertices |->
                     cursorVertexDataOffset + ((i - 1) * VERTEX_STRIDE)]
        valid == totalVertices >= 3 /\ h.renderable
        stored == IF counts # <<>> /\ CountsAlign(counts, totalVertices)
                  THEN counts ELSE <<>>
    IN  Only({ParseUnique(geo, order, k + 1, cursor2, parsed2) :
              cursor2 \in {cursorVertexDataOffset + expectedDataSize},
              parsed2 \in {Append(parsed,
                               ParsedPCMesh(meshRef, cursorVertexDataOffset,
                                            verts, stored, valid,
                                            totalVertices, h.stripCount))}})

StartsWith(name, prefix) ==
    Len(name) >= Len(prefix) /\ SubSeq(name, 1, Len(prefix)) = prefix

(* textureName.rfind("CM_", 0) == 0 || textureName.rfind("cm_", 0) == 0 *)
isCollisionTextureUpperOnly(md, ti) ==
    /\ ti < Len(md.TextureNames)
    /\ StartsWith(md.TextureNames[ti + 1], <<"C", "M", "_">>)

isCollisionTexture(md, ti) ==
    /\ ti < Len(md.TextureNames)
    /\ \/ StartsWith(md.TextureNames[ti + 1], <<"C", "M", "_">>)
       \/ StartsWith(md.TextureNames[ti + 1], <<"c", "m", "_">>)

(* The replay, one chain: a MeshData per reference to a header that was    *)
(* parsed, is valid for render and is not under a collision texture.       *)
RECURSIVE ReplayChain(_, _, _, _, _, _, _, _)
ReplayChain(geo, md, parsed, ti, ci, meshRef, walked, acc) ==
    IF meshRef = 0 THEN ChainResult(FALSE, acc)
    ELSE IF meshRef < 0 \/ meshRef >= geo.size THEN ChainResult(FALSE, acc)
    ELSE IF meshRef \in walked THEN ChainResult(TRUE, acc)
    ELSE
    LET nextMesh == readNextMesh(geo, meshRef)
        found == {k \in 1..Len(parsed) : parsed[k].meshRef = meshRef}
        emitted ==
            IF found = {} THEN acc
            ELSE LET p == parsed[MinOf(found)] IN
                 IF ~p.validForRender THEN acc
                 ELSE IF isCollisionTexture(md, ti) THEN acc
                 ELSE Append(acc, MeshData(p.vertices, p.stripVertexCounts,
                                           ti, ci, meshRef))
    IN  Only({ReplayChain(geo, md, parsed, ti, ci, next,
                          walked \cup {meshRef}, acc2) :
              next \in {nextMesh}, acc2 \in {emitted}})

RECURSIVE ReplaySlots(_, _, _, _, _)
ReplaySlots(geo, md, parsed, k, acc) ==
    IF k > Len(LookupSlots(md)) THEN ChainResult(FALSE, acc)
    ELSE
    LET slot == LookupSlots(md)[k] IN
    IF ~LookupInRange(md, slot.ti, slot.ci)
    THEN ReplaySlots(geo, md, parsed, k + 1, acc)
    ELSE Only({IF chain.diverges THEN chain
               ELSE ReplaySlots(geo, md, parsed, k + 1, chain.meshes) :
               chain \in {ReplayChain(geo, md, parsed, slot.ti, slot.ci,
                                      ReadLookup(md, slot.ti, slot.ci), {},
                                      acc)}})

PCResult(diverges, ok, failure, meshList, start, order, parsed) ==
    [diverges |-> diverges, ok |-> ok, failure |-> failure,
     meshes |-> meshList, globalVertexDataStart |-> start,
     meshOrder |-> order, parsedMeshes |-> parsed]

(* Pass 2 and the replay, once the unique headers are known. *)
ParseAndReplay(geo, md, start, order) ==
    Only({IF ~pass2.ok
          THEN PCResult(FALSE, FALSE, pass2.failure, <<>>, start, order,
                        pass2.parsedMeshes)
          ELSE Only({PCResult(replay.diverges, replay.meshes # <<>>, "none",
                              replay.meshes, start, order,
                              pass2.parsedMeshes) :
                     replay \in {ReplaySlots(geo, md, pass2.parsedMeshes, 1,
                                             <<>>)}}) :
          pass2 \in {ParseUnique(geo, order, 1, start, <<>>)}})

(* mdg::parseMDGPC from the vertex block it found. *)
ParseFrom(geo, md, start) ==
    IF start = 0
    THEN PCResult(FALSE, FALSE, "noVertexBlock", <<>>, 0, <<>>, <<>>)
    ELSE Only({IF pass1.diverges
               THEN PCResult(TRUE, FALSE, "none", <<>>, start,
                             pass1.meshOrder, <<>>)
               ELSE IF pass1.meshOrder = <<>>
               THEN PCResult(FALSE, FALSE, "noMeshRefs", <<>>, start, <<>>,
                             <<>>)
               ELSE ParseAndReplay(geo, md, start, pass1.meshOrder) :
               pass1 \in {DiscoverSlots(geo, md, 1,
                              [diverges |-> FALSE, seenMeshRefs |-> {},
                               meshOrder |-> <<>>])}})

(* mdg::parseMDGPC *)
parseMDGPC(geo, md) ==
    Only({ParseFrom(geo, md, start) :
          start \in {FindGlobalVertexDataStart(geo, md)}})

(* mdg::load, the fallback: one mesh per occurrence of the pattern after   *)
(* which the fallback layout decodes.                                      *)
RECURSIVE GenericMeshes(_, _)
GenericMeshes(geo, positions) ==
    IF positions = {} THEN <<>>
    ELSE Only({(IF pos \in geo.genericParsable
                THEN <<MeshData(<<pos + 44>>, <<>>, NoIndex, NoIndex,
                                NoIndex)>>
                ELSE <<>>) \o GenericMeshes(geo, positions \ {pos}) :
               pos \in {MinOf(positions)}})

mdgLoad(geo) ==
    IF geo.size = 0 THEN [ok |-> FALSE, meshes |-> <<>>]
    ELSE IF findall(geo) = {} THEN [ok |-> FALSE, meshes |-> <<>>]
    ELSE Only({[ok |-> found # <<>>, meshes |-> found] :
               found \in {GenericMeshes(geo, findall(geo))}})

LoadResult(parsers, returned, result, meshList, pc) ==
    [parsersRun |-> parsers, returned |-> returned, result |-> result,
     meshes |-> meshList, pc |-> pc]

NoPC == PCResult(FALSE, FALSE, "none", <<>>, 0, <<>>, <<>>)

(* mdg::loadWithMDL3Metadata, that is parseMDGWithObjectLookupTable: the   *)
(* parsers it runs, whether it returns, and with what.                     *)
parseMDGWithObjectLookupTable(signed, geo, md) ==
    IF DetectPS2(signed, geo)
    THEN Only({LoadResult(<<"ps2">>, ~ps2.diverges, ps2.ok, ps2.meshes, NoPC) :
               ps2 \in {parsePS2(signed, geo, md)}})
    ELSE Only({
        IF pc.diverges THEN LoadResult(<<"pc">>, FALSE, FALSE, pc.meshes, pc)
        ELSE IF ~pc.ok \/ pc.meshes = <<>>
        THEN Only({LoadResult(<<"pc", "generic">>, TRUE, generic.ok,
                              generic.meshes, pc) :
                   generic \in {mdgLoad(geo)}})
        ELSE LoadResult(<<"pc">>, TRUE, pc.ok, pc.meshes, pc) :
        pc \in {parseMDGPC(geo, md)}})

-----------------------------------------------------------------------------
(* Geometry buffers and lookup tables the decoder is run on *)

PlainName == <<"b", "o", "d", "y">>

(* Names that start with CM_ or cm_, and two that only look like them. *)
OtherNames == {<<"C", "M", "_", "a">>, <<"c", "m", "_", "a">>,
               <<"C", "m", "_", "a">>, <<"C", "M">>}

(* PC buffers: three mesh headers, and a lookup table of 2 textures by 2   *)
(* components whose slots are empty or point at the first two of them.     *)
PCRefs == {16, 32, 48}

PCBaseCount == [r \in PCRefs |-> 2 + (r \div 16)]

PCHeaderKinds == {"plain", "strips", "misaligned", "empty", "tiny", "boxLike",
                  "badStripCount", "danglingNext", "negativeNext"}

PCHeader(ref, kind, next) ==
    [baseVertexCount |->
        CASE kind = "empty" -> 0 [] kind = "tiny" -> 2
          [] OTHER -> PCBaseCount[ref],
     duplicateVertexCount |-> IF kind \in {"strips", "misaligned"} THEN 1 ELSE 0,
     stripCount |->
        CASE kind \in {"strips", "misaligned"} -> 1
          [] kind = "badStripCount" -> MaxStripCount + 1
          [] OTHER -> 0,
     descriptors |->
        CASE kind = "strips" -> <<PCBaseCount[ref] + 1>>
          [] kind = "misaligned" -> <<2>>
          [] OTHER -> <<>>,
     next |->
        CASE kind = "danglingNext" -> 100000
          [] kind = "negativeNext" -> -8
          [] OTHER -> next,
     renderable |-> kind # "boxLike"]

(* What is varied besides the chains and the lookup table: at most one of  *)
(* a header that is not plain, a texture with another name, no texture     *)
(* names at all, a shorter buffer, other places where a vertex block seems *)
(* to start.                                                               *)
PCBaseline ==
    [kinds |-> [r \in PCRefs |-> "plain"],
     names |-> <<PlainName, PlainName>>,
     size |-> 4096,
     validWindows |-> {96, 2400}]

PCVariations ==
    {PCBaseline}
    \cup {[PCBaseline EXCEPT !.kinds[r] = k] :
             r \in PCRefs, k \in PCHeaderKinds \ {"plain"}}
    \cup {[PCBaseline EXCEPT !.names[t] = n] : t \in 1..2, n \in OtherNames}
    \cup {[PCBaseline EXCEPT !.names = <<>>]}
    \cup {[PCBaseline EXCEPT !.size = s] : s \in {400, 600}}
    \cup {[PCBaseline EXCEPT !.validWindows = w] : w \in {{}, {48, 96}}}

(* The chains: every header's next pointer is 0 or one of the headers. *)
PCChains == [PCRefs -> {0} \cup PCRefs]

(* The chains the variations are combined with: none, straight ones, one   *)
(* shared tail, and the cycles of length 1, 2 and 3.                       *)
PCChainSamples ==
    {[r \in PCRefs |-> 0],
     (16 :> 32) @@ (32 :> 0) @@ (48 :> 0),
     (16 :> 32) @@ (32 :> 48) @@ (48 :> 0),
     (16 :> 48) @@ (32 :> 48) @@ (48 :> 0),
     (16 :> 0) @@ (32 :> 16) @@ (48 :> 0),
     (16 :> 16) @@ (32 :> 0) @@ (48 :> 0),
     (16 :> 32) @@ (32 :> 16) @@ (48 :> 0),
     (16 :> 32) @@ (32 :> 48) @@ (48 :> 16)}

PCInput(v, next, lookup) ==
    [geo |-> [size |-> v.size,
              markers |-> {},
              strips |-> <<>>,
              headers |-> [r \in PCRefs |-> PCHeader(r, v.kinds[r], next[r])],
              validWindows |-> v.validWindows,
              genericParsable |-> {}],
     md |-> [TextureCount |-> 2, ComponentCount |-> 2,
             ObjectLookupTable |-> 1024,
             lookup |-> lookup,
             TextureNames |-> v.names]]

PCLookups == [1..4 -> {0, 16, 32}]

(* PS2 buffers: two mesh records and up to three strips, each behind its   *)
(* marker, in the three strip formats; a lookup table of 2 textures by 1   *)
(* component.                                                              *)
PS2Refs == {16, 500}

PS2Markers == {40, 300, 520}

PS2Strips ==
    [m \in PS2Markers |->
        [vertexCount |-> 3,
         formatMarker2 |-> CASE m = 300 -> Format6A [] m = 520 -> Format65
                             [] OTHER -> 0]]

PS2Header(stripCount, next) ==
    [baseVertexCount |-> 0, duplicateVertexCount |-> 0,
     stripCount |-> stripCount, descriptors |-> <<>>,
     next |-> next, renderable |-> TRUE]

PS2Input(size, markers, stripCounts, next, lookup) ==
    [geo |-> [size |-> size,
              markers |-> {m \in markers : m + 4 <= size},
              strips |-> PS2Strips,
              headers |-> [r \in PS2Refs |->
                             PS2Header(stripCounts[r], next[r])],
              validWindows |-> {},
              genericParsable |-> {m \in markers : m + 4 <= size}],
     md |-> [TextureCount |-> 2, ComponentCount |-> 1,
             ObjectLookupTable |-> 1024,
             lookup |-> lookup,
             TextureNames |-> <<PlainName, PlainName>>]]

PS2Sizes == {2000, 650, 450}

(* Buffers with one marker around the end of the range the format          *)
(* detection searches, and no mesh.                                        *)
DetectionInput(size, m, generic) ==
    [geo |-> [size |-> size,
              markers |-> {m},
              strips |-> [p \in {m} |-> [vertexCount |-> 3,
                                         formatMarker2 |-> 0]],
              headers |-> <<>>,
              validWindows |-> {},
              genericParsable |-> IF generic THEN {m} ELSE {}],
     md |-> [TextureCount |-> 1, ComponentCount |-> 1,
             ObjectLookupTable |-> 1024,
             lookup |-> <<0>>,
             TextureNames |-> <<PlainName>>]]

DetectionSizes == {1000, 1002, 1003, 1004, 2000}

DetectionMarkers == {0, 500, 996, 997, 998, 999, 1000, 1500}

EmptyGeometry ==
    [size |-> 0, markers |-> {}, strips |-> <<>>, headers |-> <<>>,
     validWindows |-> {}, genericParsable |-> {}]

EmptyMetadata ==
    [TextureCount |-> 0, ComponentCount |-> 0, ObjectLookupTable |-> 0,
     lookup |-> <<>>, TextureNames |-> <<>>]

(* No decode is under way: a fresh mdg object. *)
MdgIdle ==
    /\ mdgPhase = "idle"
    /\ geometry = EmptyGeometry
    /\ mdl3Metadata = EmptyMetadata
    /\ meshes = <<>>
    /\ mdgResult = FALSE
    /\ parsersRun = <<>>
    /\ pcFailure = "none"
    /\ globalVertexDataStart = 0
    /\ meshOrder = <<>>
    /\ parsedMeshes = <<>>

-----------------------------------------------------------------------------
(* The generation-2 model header decoder: mdl2::loadTY2 and the two        *)
(* layouts it tries. The buffer is the header words the decoder reads,     *)
(* by byte offset, and the subobject records of the legacy layout.         *)

MDL3CountLimit == 1000
LegacyCountLimit == 1000
SubobjectOffsetLimit == 10000
SUBOBJECT_SIZE == 80
SubobjectSanityLimit == 1000000

(* Records of the legacy layout whose content is enumerated. *)
MaxRecords == 3

(* from_bytes<uint16_t>: the 16-bit word at pos. *)
U16(buffer, pos) == buffer.words[pos]

(* from_bytes<uint32_t>: little-endian, the word at pos is the low half. *)
U32(buffer, pos) == U16(buffer, pos) + 65536 * U16(buffer, pos + 2)

(* from_bytes<float>: the float at pos. *)
F32(buffer, pos) == buffer.floats[pos]

(* The nine floats load and the legacy layout of loadTY2 assign to bounds. *)
HeaderBounds(buffer, offset) ==
    [x |-> F32(buffer, offset + 32), y |-> F32(buffer, offset + 36),
     z |-> F32(buffer, offset + 40),
     sx |-> F32(buffer, offset + 48), sy |-> F32(buffer, offset + 52),
     sz |-> F32(buffer, offset + 56),
     ox |-> F32(buffer, offset + 64), oy |-> F32(buffer, offset + 68),
     oz |-> F32(buffer, offset + 72)]

(* The six floats, read where the generation-1 layout has them. *)
MDL3BoundsAtGen1Offsets(buffer, offset, bounds) ==
    [bounds EXCEPT
        !.x = F32(buffer, offset + 32), !.y = F32(buffer, offset + 36),
        !.z = F32(buffer, offset + 40),
        !.sx = F32(buffer, offset + 48), !.sy = F32(buffer, offset + 52),
        !.sz = F32(buffer, offset + 56)]

(* The six floats loadTY2MDL3 assigns, at 0x30.. and 0x40..; the origin   *)
(* keeps what it held.                                                    *)
MDL3Bounds(buffer, offset, bounds) ==
    [bounds EXCEPT
        !.x = F32(buffer, offset + 48), !.y = F32(buffer, offset + 52),
        !.z = F32(buffer, offset + 56),
        !.sx = F32(buffer, offset + 64), !.sy = F32(buffer, offset + 68),
        !.sz = F32(buffer, offset + 72)]

(* { {0,0,0,0,0,0,0,0,0}, "", "", 0, {} } *)
EmptySubobject ==
    [bounds |-> <<0, 0, 0, 0, 0, 0, 0, 0, 0>>, name |-> "", material |-> "",
     triangle_count |-> 0, meshes |-> <<>>]

(* The content of the record that starts at offset: records lie back to   *)
(* back from the offset the header names; the first MaxRecords are either *)
(* well formed or declare a segment count no vector can hold.             *)
RecordAt(buffer, offset) ==
    LET rel == offset - U32(buffer, 12)
        k == rel \div SUBOBJECT_SIZE
    IN  IF rel < 0 \/ rel % SUBOBJECT_SIZE # 0 THEN [kind |-> "bad", index |-> 0]
        ELSE [kind |-> IF k < MaxRecords THEN buffer.records[k] ELSE "ok",
              index |-> k]

(* parse_subobject: the subobject, or threw when an exception leaves it. *)
parse_subobject(buffer, offset) ==
    IF offset > SubobjectSanityLimit
    THEN [threw |-> TRUE, value |-> EmptySubobject]
    ELSE \* strict binding of the record read
         Only({ IF rec.kind = "bad"
                THEN [threw |-> TRUE, value |-> EmptySubobject]
                ELSE [threw |-> FALSE,
                      value |-> [bounds |-> <<1, 1, 1, 2, 2, 2, 0, 0, 0>>,
                                 name |-> "subobject",
                                 material |-> "material",
                                 triangle_count |-> rec.index + 1,
                                 meshes |-> <<"mesh">>]]
                : rec \in {RecordAt(buffer, offset)} })

(* The counts loadTY2MDL3 stores before it validates them. *)
ReadMDL3Counts(buffer, offset) ==
    [ComponentCount |-> U16(buffer, offset + 4),
     TextureCount   |-> U16(buffer, offset + 6),
     AnimNodeCount  |-> U16(buffer, offset + 8),
     RefPointCount  |-> U16(buffer, offset + 10),
     MeshCount      |-> U16(buffer, offset + 14),
     StripCount     |-> U16(buffer, offset + 30)]

(* The validation with the last count left out. *)
MDL3CountsTooHighNoRefPoints(md) ==
    \/ md.ComponentCount > MDL3CountLimit
    \/ md.TextureCount > MDL3CountLimit
    \/ md.AnimNodeCount > MDL3CountLimit

(* "Validate reasonable values" of loadTY2MDL3. *)
MDL3CountsTooHigh(md) ==
    \/ md.ComponentCount > MDL3CountLimit
    \/ md.TextureCount > MDL3CountLimit
    \/ md.AnimNodeCount > MDL3CountLimit
    \/ md.RefPointCount > MDL3CountLimit

(* A subobject of the MDL3 layout: value-initialised, then bounds and     *)
(* name of its component description.                                     *)
ComponentSubobject(buffer, i) ==
    [EmptySubobject EXCEPT !.bounds = <<1, 1, 1, 2, 2, 2, 3, 3, 3>>,
                           !.name = "component"]

(* mdl2::loadTY2MDL3 on the object obj: what it returns and the object    *)
(* it leaves. An exception while the names are read is caught inside.     *)
loadTY2MDL3(buffer, offset, obj) ==
    Only({ IF MDL3CountsTooHigh(md)
           THEN [result |-> FALSE, obj |-> [obj EXCEPT !.mdl3Metadata = md]]
           ELSE IF buffer.mdl3Throws
           THEN [result |-> FALSE,
                 obj |-> [obj EXCEPT
                     !.mdl3Metadata = md,
                     !.bounds = MDL3Bounds(buffer, offset, obj.bounds)]]
           ELSE [result |-> TRUE,
                 obj |-> [obj EXCEPT
                     !.mdl3Metadata = md,
                     !.bounds = MDL3Bounds(buffer, offset, obj.bounds),
                     !.subobjects = [i \in 1..md.ComponentCount |->
                                        ComponentSubobject(buffer, i - 1)],
                     !.isMDL3Format = TRUE]]
           : md \in {ReadMDL3Counts(buffer, offset)} })

(* The skip test with the zero offset forgotten. *)
skipOnlyLargeOffset(subobject_offset, subobject_count) ==
    subobject_offset > SubobjectOffsetLimit

(* bool skipSubobjectParsing of loadTY2. *)
skipSubobjectParsing(subobject_offset, subobject_count) ==
    \/ subobject_offset > SubobjectOffsetLimit
    \/ (subobject_offset = 0 /\ subobject_count > 0)

(* One pass of the subobject loop of loadTY2: st holds the running        *)
(* subobject_offset, the subobjects so far and the offsets handed to      *)
(* parse_subobject. Both the try and the catch branch advance by 80.      *)
LegacyIteration(buffer, offset, st) ==
    Only({ [subobject_offset |-> st.subobject_offset + SUBOBJECT_SIZE,
            subobjects |-> Append(st.subobjects,
                               IF r.threw THEN EmptySubobject ELSE r.value),
            parsedAt |-> Append(st.parsedAt, offset + st.subobject_offset)]
           : r \in {parse_subobject(buffer, offset + st.subobject_offset)} })

(* The passes lo <= i < hi of the loop, one after the other (the range    *)
(* is halved to keep the evaluation shallow).                             *)
RECURSIVE LegacySubobjects(_, _, _, _, _)
LegacySubobjects(buffer, offset, lo, hi, st) ==
    IF lo >= hi THEN st
    ELSE IF hi = lo + 1 THEN LegacyIteration(buffer, offset, st)
    ELSE Only({ LegacySubobjects(buffer, offset, (lo + hi) \div 2, hi, half)
                : half \in {LegacySubobjects(buffer, offset, lo,
                                             (lo + hi) \div 2, st)} })

(* What one call of loadTY2 leaves behind. *)
TY2Result(result, obj, returned3, entered, offsets) ==
    [result |-> result, obj |-> obj, mdl3Returned |-> returned3,
     legacyEntered |-> entered, parsedAt |-> offsets]

(* The legacy layout of loadTY2, entered after loadTY2MDL3 gave up. *)
LegacyTY2(buffer, offset, obj) ==
    LET subobject_count == U16(buffer, 6)
        collider_count == U16(buffer, 8)
        bone_count == U16(buffer, 10)
        subobject_offset == U32(buffer, 12)
    IN  IF \/ subobject_count > LegacyCountLimit
           \/ collider_count > LegacyCountLimit
           \/ bone_count > LegacyCountLimit
        THEN TY2Result(FALSE, obj, FALSE, TRUE, <<>>)
        ELSE IF buffer.nameThrows
        THEN TY2Result(FALSE,
                 [obj EXCEPT !.bounds = HeaderBounds(buffer, offset)],
                 FALSE, TRUE, <<>>)
        ELSE IF ~skipSubobjectParsing(subobject_offset, subobject_count)
        THEN Only({ TY2Result(TRUE,
                        [obj EXCEPT !.bounds = HeaderBounds(buffer, offset),
                                    !.name = "model",
                                    !.subobjects = l.subobjects],
                        FALSE, TRUE, l.parsedAt)
                    : l \in {LegacySubobjects(buffer, offset, 0,
                                 subobject_count,
                                 [subobject_offset |-> subobject_offset,
                                  subobjects |-> <<>>,
                                  parsedAt |-> <<>>])} })
        ELSE TY2Result(TRUE,
                 [obj EXCEPT !.bounds = HeaderBounds(buffer, offset),
                             !.name = "model",
                             !.subobjects =
                      [i \in 1..subobject_count |-> EmptySubobject]],
                 FALSE, TRUE, <<>>)

(* mdl2::loadTY2. *)
loadTY2(buffer, offset, obj) ==
    Only({ IF m.result
           THEN TY2Result(TRUE, m.obj, TRUE, FALSE, <<>>)
           ELSE LegacyTY2(buffer, offset, m.obj)
           : m \in {loadTY2MDL3(buffer, offset, obj)} })

(* Header words and record contents of the buffers tried. *)
CountValues == {0, 2, MaxRecords, 1000, 1001}

MdlBuffer(w4, w6, w8, w10, w12, w14, w30, records, mdl3Throws, nameThrows) ==
    [words |-> (0 :> 0) @@ (2 :> 0) @@
               (4 :> w4) @@ (6 :> w6) @@ (8 :> w8) @@ (10 :> w10) @@
               (12 :> w12) @@ (14 :> w14) @@ (30 :> w30),
     floats |-> [pos \in {32, 36, 40, 48, 52, 56, 64, 68, 72} |-> pos],
     records |-> records, mdl3Throws |-> mdl3Throws,
     nameThrows |-> nameThrows]

EmptyMdlBuffer ==
    MdlBuffer(0, 0, 0, 0, 0, 0, 0, [k \in 0..(MaxRecords - 1) |-> "ok"],
              FALSE, FALSE)

(* mdl2 mdl; of Content::load<Model>: no member has an initialiser, the   *)
(* flag holds whatever the stack held.                                    *)
FreshMdl(flag) ==
    [bounds |-> [f \in {"x", "y", "z", "sx", "sy", "sz", "ox", "oy", "oz"}
                    |-> -1],
     name |-> "",
     subobjects |-> <<>>, isMDL3Format |-> flag,
     mdl3Metadata |-> ReadMDL3Counts(EmptyMdlBuffer, 0)]

MdlIdle ==
    /\ mdlPhase = "idle"
    /\ mdlBuffer = EmptyMdlBuffer
    /\ mdl = FreshMdl(FALSE)
    /\ mdlLoaded = FALSE
    /\ mdl3Returned = FALSE
    /\ legacyEntered = FALSE
    /\ parsedOffsets = <<>>

-----------------------------------------------------------------------------
(* The generation-1 header decoder mdl2::load and the part of              *)
(* Content::load<Model> that picks the decoders and the geometry source.   *)

MDL2Magic == 843859021

(* The signature check, left out. *)
SignatureAlwaysAccepted(buffer) == TRUE

(* from_bytes<uint32_t>(buffer, 0) == 843859021 *)
SignatureMatches(buffer) == U32(buffer, 0) = MDL2Magic

(* One pass of the subobject loop of mdl2::load; nothing catches what     *)
(* parse_subobject throws, the passes after a throw do not happen.        *)
LoadIteration(buffer, offset, st) ==
    IF st.threw THEN st
    ELSE Only({ IF r.threw THEN [st EXCEPT !.threw = TRUE]
                ELSE [st EXCEPT !.subobjects[st.i + 1] = r.value,
                                !.subobject_offset = @ + SUBOBJECT_SIZE,
                                !.i = @ + 1]
                : r \in {parse_subobject(buffer, offset + st.subobject_offset)} })

RECURSIVE LoadSubobjects(_, _, _, _, _)
LoadSubobjects(buffer, offset, lo, hi, st) ==
    IF lo >= hi THEN st
    ELSE IF hi = lo + 1 THEN LoadIteration(buffer, offset, st)
    ELSE Only({ LoadSubobjects(buffer, offset, (lo + hi) \div 2, hi, half)
                : half \in {LoadSubobjects(buffer, offset, lo,
                                           (lo + hi) \div 2, st)} })

(* mdl2::load on the object obj: the value returned (none when threw),    *)
(* whether an exception left the call, the object afterwards and the      *)
(* header offsets the call read.                                          *)
load(buffer, offset, obj) ==
    IF ~SignatureMatches(buffer)
    THEN [result |-> FALSE, threw |-> FALSE, read |-> {0},
          obj |-> [obj EXCEPT !.isMDL3Format = FALSE]]
    ELSE Only({ [result |-> ~l.threw, threw |-> l.threw,
                 read |-> {0, 4, 6, 8, 10, 12, 16, 20, 68}
                          \cup {offset + p : p \in DOMAIN buffer.floats},
                 obj |-> [obj EXCEPT !.isMDL3Format = FALSE,
                                     !.bounds = HeaderBounds(buffer, offset),
                                     !.name = "model",
                                     !.subobjects = l.subobjects]]
                : l \in {LoadSubobjects(buffer, offset, 0, U16(buffer, 6),
                            [subobject_offset |-> U32(buffer, 12),
                             subobjects |-> [k \in 1..U16(buffer, 6) |->
                                                EmptySubobject],
                             i |-> 0, threw |-> FALSE])} })

NoLoadCall == [called |-> FALSE, result |-> FALSE, threw |-> FALSE,
               read |-> {}, before |-> FreshMdl(FALSE)]

LoadCall(l, before) == [called |-> TRUE, result |-> l.result,
                        threw |-> l.threw, read |-> l.read, before |-> before]

(* Content::load<Model>, header decode: the decoders called in order,     *)
(* whether the header was accepted, whether an exception left the         *)
(* function, the mdl2 object and the record of the mdl2::load call.       *)
HeaderResult(calls, accepted, leaves, obj, gen1) ==
    [calls |-> calls, loaded |-> accepted, escaped |-> leaves, obj |-> obj,
     gen1 |-> gen1]

DecoderCall(fn, result, layout) ==
    [fn |-> fn, result |-> result, layout |-> layout]

DecodeHeader(hasMdg, buffer, obj) ==
    IF hasMdg
    THEN Only({ IF t.result
                THEN HeaderResult(
                         <<DecoderCall("loadTY2", TRUE,
                               IF t.mdl3Returned THEN "MDL3" ELSE "legacy")>>,
                         TRUE, FALSE, t.obj, NoLoadCall)
                ELSE Only({ HeaderResult(
                                <<DecoderCall("loadTY2", FALSE, "none"),
                                  DecoderCall("load", l.result, "gen1")>>,
                                l.result, FALSE, l.obj, LoadCall(l, t.obj))
                            : l \in {load(buffer, 0, t.obj)} })
                : t \in {loadTY2(buffer, 0, obj)} })
    ELSE Only({ HeaderResult(<<DecoderCall("load", l.result, "gen1")>>,
                             l.result, l.threw, l.obj, LoadCall(l, obj))
                : l \in {load(buffer, 0, obj)} })

(* The Model handed back, NULL when source is "none". *)
ProducedModel(source, meshCount, obj) ==
    [source |-> source, meshCount |-> meshCount,
     bounds_crn |-> <<obj.bounds.x, obj.bounds.y, obj.bounds.z>>,
     bounds_size |-> <<obj.bounds.sx, obj.bounds.sy, obj.bounds.sz>>]

NullProduced ==
    [source |-> "none", meshCount |-> 0, bounds_crn |-> <<0, 0, 0>>,
     bounds_size |-> <<0, 0, 0>>]

(* The meshes embedded in the .mdl: one render-mesh per mesh of each      *)
(* subobject.                                                             *)
EmbeddedMeshCount(obj) ==
    SumSeq([k \in 1..Len(obj.subobjects) |-> Len(obj.subobjects[k].meshes)])

(* Content::load<Model> after an accepted header: the geometry comes from *)
(* the .mdg whenever there is one, from the .mdl otherwise.               *)
SelectGeometry(hasMdg, signed, obj, companion) ==
    IF hasMdg
    THEN Only({ IF ~g.returned
                THEN [returned |-> FALSE, model |-> NullProduced]
                ELSE IF g.result
                THEN [returned |-> TRUE,
                      model |-> ProducedModel("mdg", Len(g.meshes), obj)]
                ELSE [returned |-> TRUE, model |-> NullProduced]
                : g \in {IF obj.isMDL3Format
                         THEN parseMDGWithObjectLookupTable(signed,
                                  companion.geo, companion.md)
                         ELSE Only({ LoadResult(<<"generic">>, TRUE, m.ok,
                                                m.meshes, NoPC)
                                     : m \in {mdgLoad(companion.geo)} })} })
    ELSE [returned |-> TRUE,
          model |-> ProducedModel("embedded", EmbeddedMeshCount(obj), obj)]

(* The .mdl buffer, with its signature. *)
ModelFile(buffer, signed) ==
    [buffer EXCEPT !.words = (0 :> (IF signed THEN 17485 ELSE 0)) @@
                             (2 :> (IF signed THEN 12876 ELSE 0)) @@ @]

(* The .mdg companions: one the PC parser decodes, one only the generic  *)
(* parser decodes, one nothing decodes.                                   *)
MdgFiles ==
    {PCInput(PCBaseline, [r \in PCRefs |-> 0], <<16, 32, 0, 0>>),
     DetectionInput(2000, 1500, TRUE),
     DetectionInput(2000, 1500, FALSE)}

HdrIdle ==
    /\ hdrPhase = "idle"
    /\ isTY2 = FALSE
    /\ decoderCalls = <<>>
    /\ escaped = FALSE
    /\ gen1Call = NoLoadCall
    /\ mdgFile = DetectionInput(2000, 1500, FALSE)
    /\ produced = NullProduced

-----------------------------------------------------------------------------
(* The archive reader (loader/archive.cpp)                                 *)
(*                                                                         *)
(* The file at the path is described by what the reader reads from it:     *)
(* whether it opens, its size, its first four bytes, the trailer and       *)
(* table of the RKV1 layout, the header, entries and names of the RKV2     *)
(* layout. A name is the sequence of its character codes; byte pos of the  *)
(* file holds (pos % 255) + 1.                                             *)

MaxFiles == 2
DataSize == 4

(* ::tolower on one character code. *)
ToLower(c) == IF c >= 65 /\ c <= 90 THEN c + 32 ELSE c

(* The key left as the name is. *)
VerbatimKey(name) == name

(* std::transform(key.begin(), key.end(), key.begin(), ::tolower) *)
LowerKey(name) == [k \in 1..Len(name) |-> ToLower(name[k])]

(* File file; the members of a File when nothing was assigned. *)
DefaultFile ==
    [name |-> <<>>, folder |-> 0, size |-> 0, offset |-> 0, date |-> 0]

Byte(pos) == (pos % 255) + 1

(* stream.seekg(offset); stream.read(&data[0], size) into a vector of     *)
(* size zero bytes: what lies past the end of the file stays zero.        *)
ReadRange(d, offset, size) ==
    [k \in 1..size |-> IF offset + k - 1 < d.size THEN Byte(offset + k - 1)
                       ELSE 0]

(* files[key] = file for the records read, in order; a later record with  *)
(* the same key replaces an earlier one.                                  *)
RECURSIVE InsertFiles(_, _)
InsertFiles(files, records) ==
    IF records = <<>> THEN files
    ELSE InsertFiles([k \in DOMAIN files \cup {LowerKey(records[1].name)} |->
                         IF k = LowerKey(records[1].name) THEN records[1]
                         ELSE files[k]],
                     Tail(records))

(* Archive::identify: RKV2 by its first four bytes, RKV1 otherwise. *)
identify(d) == IF d.tag = "RKV2" THEN "RKV2" ELSE "RKV1"

(* Archive::loadAsRKV1: the trailer, then filecount records of 64 bytes   *)
(* before the folder table; reads that fail leave the zeroed buffers.     *)
loadAsRKV1(d) ==
    LET filecount == IF d.size >= 8 THEN d.trailer.filecount ELSE 0
        foldercount == IF d.size >= 8 THEN d.trailer.foldercount ELSE 0
        tableReadable == 8 + foldercount * 256 + filecount * 64 <= d.size
    IN  InsertFiles(<<>>, [i \in 1..filecount |->
                              IF tableReadable /\ i <= Len(d.table)
                              THEN d.table[i] ELSE DefaultFile])

(* Archive::loadAsRKV2: files_count entries of 20 bytes from info_off,    *)
(* each with its name from the name block.                                *)
loadAsRKV2(d) ==
    InsertFiles(<<>>, [i \in 1..d.rkv2.files_count |->
                          IF i <= Len(d.rkv2.entries)
                          THEN [name |-> d.rkv2.entries[i].name, folder |-> 0,
                                size |-> d.rkv2.entries[i].size,
                                offset |-> d.rkv2.entries[i].offset,
                                date |-> 0]
                          ELSE DefaultFile])

FreshArchive == [size |-> 0, version |-> "UNKNOWN", files |-> <<>>]

(* The test for an empty file, left out. *)
NeverEmpty(d) == FALSE

(* size == 0 *)
IsEmptyFile(d) == d.size = 0

(* Archive::load on a fresh Archive: the value returned and the object. *)
ArchiveLoad(d) ==
    IF ~d.readable THEN [result |-> FALSE, arc |-> FreshArchive]
    ELSE IF IsEmptyFile(d)
    THEN [result |-> FALSE, arc |-> [FreshArchive EXCEPT !.size = 0]]
    ELSE Only({ IF version = "RKV1"
                THEN [result |-> TRUE,
                      arc |-> [size |-> d.size, version |-> version,
                               files |-> loadAsRKV1(d)]]
                ELSE IF version = "RKV2"
                THEN [result |-> TRUE,
                      arc |-> [size |-> d.size, version |-> version,
                               files |-> loadAsRKV2(d)]]
                ELSE [result |-> FALSE,
                      arc |-> [FreshArchive EXCEPT !.size = d.size]]
                : version \in {identify(d)} })

(* Archive::getFile: found, and the File handed back. *)
getFile(a, name) ==
    IF LowerKey(name) \in DOMAIN a.files
    THEN [found |-> TRUE, file |-> a.files[LowerKey(name)]]
    ELSE [found |-> FALSE, file |-> DefaultFile]

(* Archive::getFileData: a file of size 0 counts as not found. *)
getFileData(a, d, name) ==
    LET file == IF LowerKey(name) \in DOMAIN a.files
                THEN a.files[LowerKey(name)] ELSE DefaultFile
    IN  IF file.size # 0
        THEN [ok |-> TRUE, data |-> ReadRange(d, file.offset, file.size)]
        ELSE [ok |-> FALSE, data |-> <<>>]

(* Archive::getAllFiles: the stored name of every map entry. *)
getAllFiles(a) == [k \in DOMAIN a.files |-> a.files[k].name]

(* The files on disk the reader is run on. *)
NoDisk ==
    [readable |-> FALSE, size |-> 0, tag |-> "", 
     trailer |-> [filecount |-> 0, foldercount |-> 0], table |-> <<>>,
     rkv2 |-> [files_count |-> 0, entries |-> <<>>]]

(* "a", "A", "b", "ab", "Ab" *)
FileNames == {<<97>>, <<65>>, <<98>>, <<97, 98>>, <<65, 98>>}

RKV1Size(n, foldercount) == DataSize + foldercount * 256 + n * 64 + 8

(* A well-formed RKV1 file of n records. *)
RKV1Disk(table, foldercount) ==
    [NoDisk EXCEPT !.readable = TRUE,
                   !.size = RKV1Size(Len(table), foldercount),
                   !.tag = "data",
                   !.trailer = [filecount |-> Len(table),
                                foldercount |-> foldercount],
                   !.table = table]

RKV2Disk(entries) ==
    [NoDisk EXCEPT !.readable = TRUE,
                   !.size = 28 + 20 * Len(entries) + 256 * Len(entries)
                            + DataSize,
                   !.tag = "RKV2",
                   !.rkv2 = [files_count |-> Len(entries),
                             entries |-> entries]]

(* Files that are no archive: empty, three bytes, and one whose last      *)
(* eight bytes name more records than it can hold.                        *)
OtherDisks ==
    {NoDisk,
     [NoDisk EXCEPT !.readable = TRUE],
     [NoDisk EXCEPT !.readable = TRUE, !.size = 3, !.tag = "abc"],
     [NoDisk EXCEPT !.readable = TRUE, !.size = 40, !.tag = "text",
                    !.trailer = [filecount |-> 2, foldercount |-> 0]]}

NoQuery == [asked |-> FALSE, name |-> <<>>, file |-> getFile(FreshArchive, <<>>),
            data |-> getFileData(FreshArchive, NoDisk, <<>>)]

ArcIdle ==
    /\ arcPhase = "idle"
    /\ disk = NoDisk
    /\ arc = FreshArchive
    /\ arcResult = FALSE
    /\ query = NoQuery

-----------------------------------------------------------------------------
(* Application::initialize: the archives, the two shaders, and the        *)
(* textures Content hands out afterwards                                  *)

ShaderName == "standard.shader"

TextureNames == {"a.dds", "b.dds"}

NoTexture == [asked |-> FALSE, name |-> "", texture |-> "null"]

(* Before Application::initialize. *)
StartIdle ==
    /\ startPhase = "idle"
    /\ startLoaded = [i \in 0..1 |-> FALSE]
    /\ shader = "null"
    /\ basic = "null"
    /\ shaders = [n \in {ShaderName} |-> "null"]
    /\ textures = [n \in TextureNames |-> "null"]
    /\ lastTexture = NoTexture

-----------------------------------------------------------------------------
(* mdg::parseMDGPC, one mesh header: strip descriptors and vertex block *)

(* No mesh header is being parsed. *)
PCIdle ==
    /\ stripDescriptors = <<>>
    /\ pcPhase = "idle"
    /\ rawUvs = <<>>
    /\ parsedVertices = <<>>
    /\ useShiftedUvs = FALSE

-----------------------------------------------------------------------------
(* mdg::parseStrip, default format: bone indices *)

NoAnimNodeList == 65535

(* The bone index of the charData: a uint8_t all the way.                 *)
RemapBoneIndex1(byte, animNodeListIndex, animNodeLists) ==
    LET boneIndex == byte \div 2 IN
    IF animNodeListIndex # NoAnimNodeList /\ animNodeListIndex < Len(animNodeLists)
    THEN LET animNodeList == animNodeLists[animNodeListIndex + 1] IN
         IF boneIndex < Len(animNodeList)
         THEN ((animNodeList[boneIndex + 1] + 1) * 2) % 256
         ELSE (boneIndex * 2) % 256
    ELSE (boneIndex * 2) % 256

(* The bone index of the shortData: a uint16_t all the way.               *)
RemapBoneIndex2(short, animNodeListIndex, animNodeLists) ==
    LET boneIndex == short \div 4 IN
    IF animNodeListIndex # NoAnimNodeList /\ animNodeListIndex < Len(animNodeLists)
    THEN LET animNodeList == animNodeLists[animNodeListIndex + 1] IN
         IF boneIndex < Len(animNodeList)
         THEN ((animNodeList[boneIndex + 1] + 1) * 4) % 65536
         ELSE (boneIndex * 4) % 65536
    ELSE (boneIndex * 4) % 65536

NoBoneInput ==
    [read |-> FALSE, byte |-> 0, short |-> 0, animNodeListIndex |-> NoAnimNodeList,
     animNodeLists |-> <<>>]

(* No vertex has been decoded. *)
SkinIdle ==
    /\ boneInput = NoBoneInput
    /\ skin = <<0, 0, 0>>

-----------------------------------------------------------------------------
(* The reads of the geometry buffer *)

(* Nothing has been read. *)
ReadIdle == readSite = "idle" /\ readSize = 0 /\ readHighest = NoIndex

-----------------------------------------------------------------------------
(* The Gui: rectangles and the constructed state *)

GuiRect(x, y, width, height) ==
    [x |-> x, y |-> y, width |-> width, height |-> height]

(* GuiRect::contains: both ends of each side belong to the rectangle. *)
contains(r, px, py) ==
    /\ px >= r.x /\ px <= r.x + r.width
    /\ py >= r.y /\ py <= r.y + r.height

(* A rectangle nothing was assigned to, taken as all zeros. *)
NoRect == GuiRect(0, 0, 0, 0)

(* Gui::Gui(): the fields the constructor initialises. *)
GuiConstructed ==
    /\ dropdownOpen = FALSE
    /\ hovering = FALSE
    /\ submenuOpen = FALSE
    /\ hoveredCategory = 0
    /\ hoveredSubmenuItem = -1
    /\ activeSearchCategory = 0
    /\ ty1Search = <<>>
    /\ ty2Search = <<>>
    /\ mouse = <<0, 0>>
    /\ ty1Models = <<>>
    /\ ty2Models = <<>>

(* A Gui no event has reached. *)
GuiIdle == GuiConstructed /\ dropdownRect = NoRect /\ submenuRect = NoRect

(* No decoder is at work; char is signed, as on the x86 builds. *)
LoadersIdle == charSigned = TRUE /\ MdgIdle /\ MdlIdle /\ HdrIdle
    /\ ArcIdle /\ StartIdle /\ PCIdle /\ SkinIdle /\ ReadIdle

DecodersIdle == LoadersIdle /\ GuiIdle

-----------------------------------------------------------------------------
(* No mesh is under construction. *)
BuildInit ==
    /\ buildPath = "idle"
    /\ vertices = <<>>
    /\ indices = <<>>
    /\ stripVertexCounts = <<>>
    /\ segments = <<>>
    /\ startIndex = 0
    /\ count = 0
    /\ degenerateCount = 0
    /\ totalTriangleCount = 0
    /\ degenerateUvMismatch = 0
    /\ stripBreaks = 0

-----------------------------------------------------------------------------
(* Application::loadModel, Content::load<Model> (cache and archive         *)
(* selection) and the Gui's current model                                  *)

ModelNames == {"a.mdl", "b.mdl"}

NullModel == [name |-> "", archive |-> -1]

NullArchive == [loaded |-> FALSE, files |-> {}, decodable |-> {}]

(* An archive slot after Application::initialize: null when no path is     *)
(* configured; otherwise an Archive (with an empty file map when its load  *)
(* failed) holding .mdl files, some of which decode to a Model.            *)
ArchiveStates ==
    {NullArchive} \cup
    {ar \in [loaded : {TRUE}, files : SUBSET ModelNames,
             decodable : SUBSET ModelNames] : ar.decodable \subseteq ar.files}

(* The state of the Application part when no model was ever requested. *)
AppIdle ==
    /\ archives = [i \in 0..1 |-> NullArchive]
    /\ activeArchiveIndex = 0
    /\ contentModels = [n \in ModelNames |-> NullModel]
    /\ models = <<>>
    /\ currentModelArchiveIndex = 0
    /\ currentModelName = ""
    /\ guiCurrentModel = NullModel
    /\ guiCurrentModelName = ""
    /\ loadCalls = 0
    /\ lastLoaded = NullModel

(* Application::initialize up to the model list: both archive slots are    *)
(* filled from the configuration and the first archive that holds files    *)
(* becomes the active one.                                                 *)
AppInit ==
    /\ archives \in [0..1 -> ArchiveStates]
    /\ activeArchiveIndex =
          IF archives[0].files # {} THEN 0
          ELSE IF archives[1].files # {} THEN 1 ELSE 0
    /\ contentModels = [n \in ModelNames |-> NullModel]
    /\ models = <<>>
    /\ currentModelArchiveIndex = 0
    /\ currentModelName = ""
    /\ guiCurrentModel = NullModel
    /\ guiCurrentModelName = ""
    /\ loadCalls = 0
    /\ lastLoaded = NullModel

(* Content::setActiveArchive *)
setActiveArchive(active, archiveIndex) ==
    IF archiveIndex >= 0 /\ archiveIndex <= 1 THEN archiveIndex ELSE active

(* Content::load<Model> with a cache that keeps the newest Model only. *)
ContentLoadModelEvicting(name, active, cache) ==
    LET archive == archives[active] IN
    IF ~archive.loaded
    THEN [model |-> NullModel, cache |-> cache]
    ELSE IF name \in DOMAIN cache /\ cache[name] # NullModel
    THEN [model |-> cache[name], cache |-> cache]
    ELSE IF name \notin archive.files
    THEN [model |-> NullModel, cache |-> cache]
    ELSE IF name \in archive.decodable
    THEN LET m == [name |-> name, archive |-> active]
         IN  [model |-> m,
              cache |-> [n \in DOMAIN cache |-> IF n = name THEN m ELSE NullModel]]
    ELSE [model |-> NullModel, cache |-> cache]

(* Content::load<Model>: the value returned and the cache afterwards.      *)
ContentLoadModel(name, active, cache) ==
    LET archive == archives[active] IN
    IF ~archive.loaded
    THEN [model |-> NullModel, cache |-> cache]
    ELSE IF name \in DOMAIN cache /\ cache[name] # NullModel
    THEN [model |-> cache[name], cache |-> cache]
    ELSE IF name \notin archive.files
    THEN [model |-> NullModel, cache |-> cache]
    ELSE IF name \in archive.decodable
    THEN LET m == [name |-> name, archive |-> active]
         IN  [model |-> m, cache |-> [cache EXCEPT ![name] = m]]
    ELSE [model |-> NullModel, cache |-> cache]

(* Application::loadModel, with clearModels, setActiveArchive,             *)
(* Content::load<Model> and Gui::setCurrentModel.                          *)
loadModel(modelName, archiveIndex) ==
    LET active == setActiveArchive(activeArchiveIndex, archiveIndex)
        r == ContentLoadModel(modelName, active, contentModels)
    IN  /\ activeArchiveIndex' = active
        /\ currentModelArchiveIndex' = archiveIndex
        /\ currentModelName' = modelName
        /\ contentModels' = r.cache
        /\ lastLoaded' = r.model
        /\ loadCalls' = loadCalls + 1
        /\ IF r.model # NullModel
           THEN /\ models' = <<r.model>>
                /\ guiCurrentModel' = r.model
                /\ guiCurrentModelName' = modelName
           ELSE /\ models' = <<>>
                /\ guiCurrentModel' = NullModel
                /\ guiCurrentModelName' = guiCurrentModelName
        /\ UNCHANGED <<archives, buildVars, decoderVars>>

(* Application::initialize: the model named in the configuration is        *)
(* requested from the active archive when an archive was loaded.           *)
LoadConfigModel ==
    /\ loadCalls = 0
    /\ archives[0].files # {} \/ archives[1].files # {}
    /\ \E name \in ModelNames : loadModel(name, activeArchiveIndex)

(* The onModelSelected callback: an entry of the model list is requested   *)
(* from the archive that lists it.                                         *)
SelectModel ==
    /\ loadCalls < MaxLoads
    /\ \E archiveIndex \in 0..1 :
       \E name \in archives[archiveIndex].files :
          loadModel(name, archiveIndex)

AppNext == LoadConfigModel \/ SelectModel

AppSpecInit == AppInit /\ BuildInit /\ DecodersIdle

AppSpec == AppSpecInit /\ [][AppNext]_vars

(* C3: when a loadModel call fails (Content::load<Model> returns null),    *)
(* the list of displayed models and the Gui's current model are the same   *)
(* after the call as before it.                                            *)
C3_FailedLoadKeepsModel ==
    [][(loadCalls' = loadCalls + 1 /\ lastLoaded' = NullModel)
          => (models' = models /\ guiCurrentModel' = guiCurrentModel)]_vars

-----------------------------------------------------------------------------
(* Actions of the render-mesh construction *)

SetBuild(path, verts, strips, segs, start, cnt, acc) ==
    /\ UNCHANGED <<appVars, decoderVars>>
    /\ buildPath' = path
    /\ vertices' = verts
    /\ stripVertexCounts' = strips
    /\ segments' = segs
    /\ startIndex' = start
    /\ count' = cnt
    /\ indices' = acc.indices
    /\ degenerateCount' = acc.degenerateCount
    /\ totalTriangleCount' = acc.totalTriangleCount
    /\ degenerateUvMismatch' = acc.degenerateUvMismatch
    /\ stripBreaks' = acc.stripBreaks

(* One call of the strip reconstructor on a vertex array and a range, with *)
(* fresh counters and an empty index list.                                 *)
AppendStrip ==
    /\ buildPath = "idle"
    /\ \E verts \in SeqsUpTo(VertexValues, MaxVerts) :
       \E start \in 0..MaxVerts, cnt \in 0..MaxVerts + 1 :
        SetBuild("strip", verts, <<>>, <<>>, start, cnt,
                 appendTriangleStripIndices(verts, EmptyAcc, start, cnt))

(* The next mesh starts from fresh locals (vertices, indices, counters).   *)
NextMesh ==
    /\ buildPath # "idle"
    /\ SetBuild("idle", <<>>, <<>>, <<>>, 0, 0, EmptyAcc)

StripNext == AppendStrip \/ NextMesh

StripInit == BuildInit /\ AppIdle /\ DecodersIdle

StripSpec == StripInit /\ [][StripNext]_vars

(* Strip lengths a MeshData can carry: mdg::parseMDGPC stores them only    *)
(* when they align with the vertex count, and only meshes of at least 3    *)
(* vertices are emitted with them; every other producer leaves them empty. *)
MeshStripCounts(n) ==
    {<<>>} \cup {st \in SeqsUpTo(0..MaxVerts, MaxStrips) :
                    st # <<>> /\ n >= 3 /\ StripGap(st, n).countsAlign}

(* Content::load<Model>, MDL3 branch: one mesh of mdgParser.meshes.        *)
BuildMdl3Mesh ==
    /\ buildPath = "idle"
    /\ \E verts \in SeqsUpTo(VertexValues, MaxVerts) :
       \E strips \in MeshStripCounts(Len(verts)) :
        SetBuild("mdl3", verts, strips, <<>>, 0, 0,
                 TriangulateMdgMesh(verts, strips))

(* Content::load<Model>, MDG without MDL3 metadata: the meshes come from   *)
(* mdg::load, which never fills stripVertexCounts and skips vnum = 0.      *)
BuildMdgFallbackMesh ==
    /\ buildPath = "idle"
    /\ \E verts \in SeqsUpTo(VertexValues, MaxVerts) :
        /\ Len(verts) > 0
        /\ SetBuild("mdg", verts, <<>>, <<>>, 0, 0,
                    TriangulateMdgMesh(verts, <<>>))

(* Content::load<Model>, generation 1: one mesh of a subobject.  When the  *)
(* index loop diverges no Mesh is constructed.                             *)
BuildGen1Mesh ==
    /\ buildPath = "idle"
    /\ \E segs \in SeqsUpTo(0..MaxSegLen, MaxSegs) :
        LET r == TriangulateGen1Mesh(segs) IN
        SetBuild(IF r.diverged THEN "gen1Diverged" ELSE "gen1",
                 r.vertices, <<>>, segs, 0, 0,
                 StripAcc(r.indices, 0, 0, 0, 0))

BuildNext == BuildMdl3Mesh \/ BuildMdgFallbackMesh \/ BuildGen1Mesh \/ NextMesh

BuildSpec == StripInit /\ [][BuildNext]_vars

-----------------------------------------------------------------------------
(* Properties of the strip reconstructor and of the render-meshes *)

WindowDegenerate(verts, i0) ==
    \/ isSamePosition(verts[i0 + 1], verts[i0 + 2])
    \/ isSamePosition(verts[i0 + 2], verts[i0 + 3])
    \/ isSamePosition(verts[i0 + 1], verts[i0 + 3])

WindingOf(start, i) ==
    IF i % 2 = 0 THEN <<start + i, start + i + 1, start + i + 2>>
                 ELSE <<start + i + 1, start + i, start + i + 2>>

KeptWindows ==
    SelectSeq([k \in 1..(count - 2) |-> k - 1],
              LAMBDA i : ~WindowDegenerate(vertices, startIndex + i))

(* C1: for a strip range (startIndex, count) with count >= 3 that lies     *)
(* inside the vertex array, the appended indices are exactly the windows   *)
(* (s+i, s+i+1, s+i+2), i in [0, count-2), in order and with alternating   *)
(* winding, leaving out every window with two vertices at the same         *)
(* position, and degenerateCount is the number of windows left out.        *)
C1_DegenerateWindowsExcluded ==
    (buildPath = "strip" /\ count >= 3 /\ startIndex + count <= Len(vertices)) =>
        /\ Len(indices) = 3 * Len(KeptWindows)
        /\ \A k \in 1..Len(KeptWindows) :
              <<indices[3 * k - 2], indices[3 * k - 1], indices[3 * k]>>
                  = WindingOf(startIndex, KeptWindows[k])
        /\ degenerateCount = (count - 2) - Len(KeptWindows)

(* C2: every render-mesh built on the generation-1 path, the MDL3+MDG path *)
(* and the MDG path without MDL3 metadata has an index list whose length   *)
(* is a multiple of 3 and whose indices are all smaller than the number of *)
(* vertices of that mesh.                                                  *)
C2_IndicesValid ==
    buildPath \in {"gen1", "mdl3", "mdg"} =>
        /\ Len(indices) % 3 = 0
        /\ \A k \in 1..Len(indices) : indices[k] >= 0 /\ indices[k] < Len(vertices)

C2_Witness ==
    /\ buildPath = "mdl3"
    /\ Len(stripVertexCounts) = 2
    /\ Len(vertices) = SumSeq(stripVertexCounts) + 2
    /\ Len(indices) >= 6

-----------------------------------------------------------------------------
(* Actions of the MDG decoder *)

(* One call of mdg::loadWithMDL3Metadata on a fresh mdg object. A call     *)
(* that never returns leaves the decoder in phase "running".               *)
Decode(input) ==
    \E r \in {parseMDGWithObjectLookupTable(charSigned, input.geo, input.md)} :
        /\ geometry' = input.geo
        /\ mdl3Metadata' = input.md
        /\ mdgPhase' = IF r.returned THEN "returned" ELSE "running"
        /\ mdgResult' = r.result
        /\ meshes' = r.meshes
        /\ parsersRun' = r.parsersRun
        /\ pcFailure' = r.pc.failure
        /\ globalVertexDataStart' = r.pc.globalVertexDataStart
        /\ meshOrder' = r.pc.meshOrder
        /\ parsedMeshes' = r.pc.parsedMeshes
        /\ UNCHANGED <<charSigned, buildVars, appVars, mdlVars, laterVars>>

LoadWithMDL3Metadata ==
    /\ mdgPhase = "idle"
    /\ \/ \E next \in PCChains, lookup \in PCLookups :
          \E input \in {PCInput(PCBaseline, next, lookup)} : Decode(input)
       \/ \E v \in PCVariations :
          \E next \in PCChainSamples, lookup \in PCLookups :
          \E input \in {PCInput(v, next, lookup)} : Decode(input)
       \/ \E size \in PS2Sizes, markers \in SUBSET PS2Markers :
          \E stripCounts \in [PS2Refs -> 0..2] :
          \E next \in [PS2Refs -> {0} \cup PS2Refs] :
          \E lookup \in [1..2 -> {0} \cup PS2Refs] :
          \E input \in {PS2Input(size, markers, stripCounts, next, lookup)} :
             Decode(input)
       \/ \E size \in DetectionSizes, generic \in BOOLEAN :
          \E m \in {p \in DetectionMarkers : p + 4 <= size} :
          \E input \in {DetectionInput(size, m, generic)} : Decode(input)

(* Content::load<Model> returns and its mdg object is destroyed. *)
ReleaseParser ==
    /\ mdgPhase = "returned"
    /\ mdgPhase' = "idle"
    /\ geometry' = EmptyGeometry
    /\ mdl3Metadata' = EmptyMetadata
    /\ meshes' = <<>>
    /\ mdgResult' = FALSE
    /\ parsersRun' = <<>>
    /\ pcFailure' = "none"
    /\ globalVertexDataStart' = 0
    /\ meshOrder' = <<>>
    /\ parsedMeshes' = <<>>
    /\ UNCHANGED <<charSigned, buildVars, appVars, mdlVars, laterVars>>

MdgNext == LoadWithMDL3Metadata \/ ReleaseParser

(* The build decides whether char is signed. *)
MdgInit ==
    charSigned \in BOOLEAN /\ MdgIdle /\ MdlIdle /\ HdrIdle /\ ArcIdle
    /\ StartIdle /\ PCIdle /\ SkinIdle /\ ReadIdle /\ GuiIdle
    /\ BuildInit /\ AppIdle

MdgSpec == MdgInit /\ [][MdgNext]_vars

-----------------------------------------------------------------------------
(* Properties of the MDG decoder *)

(* The records of one chain, from ref to the end of the chain. *)
RECURSIVE ChainOf(_, _)
ChainOf(geo, ref) ==
    IF ref = 0 \/ ref < 0 \/ ref >= geo.size THEN <<>>
    ELSE <<ref>> \o ChainOf(geo, readNextMesh(geo, ref))

(* All references to mesh headers, texture by texture, component by        *)
(* component, each slot's chain from its head.                             *)
RECURSIVE VisitsFrom(_, _, _, _)
VisitsFrom(geo, md, ti, ci) ==
    IF ti >= md.TextureCount THEN <<>>
    ELSE IF ci >= md.ComponentCount THEN VisitsFrom(geo, md, ti + 1, 0)
    ELSE ChainOf(geo, ReadLookup(md, ti, ci)) \o VisitsFrom(geo, md, ti, ci + 1)

FirstIndex(seq, x) == MinOf({i \in 1..Len(seq) : seq[i] = x})

IsFirstSeenOrder(order, visits) ==
    /\ \A i, j \in 1..Len(order) : i # j => order[i] # order[j]
    /\ {order[i] : i \in 1..Len(order)} = {visits[i] : i \in 1..Len(visits)}
    /\ \A i, j \in 1..Len(order) :
          i < j => FirstIndex(visits, order[i]) < FirstIndex(visits, order[j])

HeaderVertexCount(geo, ref) ==
    geo.headers[ref].baseVertexCount + geo.headers[ref].duplicateVertexCount

RECURSIVE VerticesBefore(_, _, _)
VerticesBefore(geo, order, k) ==
    IF k <= 1 THEN 0
    ELSE HeaderVertexCount(geo, order[k - 1]) + VerticesBefore(geo, order, k - 1)

(* parseMDGPC went through pass 1 and returned. *)
PCParsed ==
    /\ mdgPhase = "returned"
    /\ parsersRun # <<>> /\ parsersRun[1] = "pc"
    /\ globalVertexDataStart # 0
    /\ meshOrder # <<>>

(* C4: in the PC path the unique mesh headers reachable from the lookup    *)
(* table are listed once each, in the order the (texture, component,       *)
(* chain) traversal first meets them; they are parsed in that order (all   *)
(* of them unless the parse is given up), the k-th at                      *)
(* globalVertexDataStart + 48 * (the vertex counts of the headers before   *)
(* it); and every emitted mesh carries the vertex array parsed for its     *)
(* header, so that all references to one header emit the same array.       *)
C4_UniqueHeadersParsedOnce ==
    PCParsed =>
      /\ IsFirstSeenOrder(meshOrder,
                          VisitsFrom(geometry, mdl3Metadata, 0, 0))
      /\ Len(parsedMeshes) <= Len(meshOrder)
      /\ pcFailure = "none" => Len(parsedMeshes) = Len(meshOrder)
      /\ \A k \in 1..Len(parsedMeshes) :
            LET p == parsedMeshes[k]
                offset == globalVertexDataStart
                            + (48 * VerticesBefore(geometry, meshOrder, k))
            IN  /\ p.meshRef = meshOrder[k]
                /\ p.vertexDataOffset = offset
                /\ p.vertices = [i \in 1..HeaderVertexCount(geometry, p.meshRef)
                                    |-> offset + (48 * (i - 1))]
      /\ parsersRun = <<"pc">> =>
            \A n \in 1..Len(meshes) :
               \E k \in 1..Len(parsedMeshes) :
                  /\ parsedMeshes[k].meshRef = meshes[n].meshRef
                  /\ parsedMeshes[k].vertices = meshes[n].vertices

(* Three unique headers, the third read behind the other two, and one      *)
(* header emitted for two different textures.                              *)
C4_Witness ==
    /\ PCParsed
    /\ parsersRun = <<"pc">>
    /\ Len(meshOrder) = 3
    /\ Len(parsedMeshes) = 3
    /\ parsedMeshes[3].vertexDataOffset > parsedMeshes[2].vertexDataOffset
    /\ parsedMeshes[2].vertexDataOffset > globalVertexDataStart
    /\ \E n1, n2 \in 1..Len(meshes) :
          /\ meshes[n1].meshRef = meshes[n2].meshRef
          /\ meshes[n1].textureIndex # meshes[n2].textureIndex
          /\ meshes[n1].vertices = meshes[n2].vertices
          /\ meshes[n1].vertices # <<>>

(* C5: every call of loadWithMDL3Metadata returns (with true or false):    *)
(* the decoder is never left inside a call that goes on for ever.          *)
C5_LoadTerminates == mdgPhase # "running"

(* The first strip of a PS2 mesh record decodes. *)
FirstStripDecodes(geo, ref) ==
    /\ geo.headers[ref].stripCount > 0
    /\ LET patternPos == FindStripPattern(FALSE, geo, ref + 12)
       IN  patternPos # SIZE_MAX /\ PS2Strip(geo, patternPos).ok

SlotsOf(md) ==
    {<<ti, ci>> : ti \in 0..(md.TextureCount - 1),
                  ci \in 0..(md.ComponentCount - 1)}

(* C6: a mesh or strip that cannot be decoded is the only one left out.    *)
(* PC path: when a header's vertex data does not fit the buffer, every     *)
(* header parsed before it that is valid for render still has its mesh in  *)
(* the output for each non-collision reference, and the call returns       *)
(* true. PS2 path: every chain link of every slot whose first strip        *)
(* decodes has a mesh in the output, whatever went wrong in the links      *)
(* before it, and the call returns true when there is a mesh.              *)
C6_OnlyFailingMeshLeftOut ==
    /\ (PCParsed /\ pcFailure = "short") =>
          \A k \in 1..Len(parsedMeshes) :
          \A s \in SlotsOf(mdl3Metadata) :
             LET ref == parsedMeshes[k].meshRef
                 chain == ChainOf(geometry, ReadLookup(mdl3Metadata, s[1], s[2]))
             IN  (/\ parsedMeshes[k].validForRender
                  /\ ~isCollisionTexture(mdl3Metadata, s[1])
                  /\ \E i \in 1..Len(chain) : chain[i] = ref)
                 => /\ mdgResult = TRUE
                    /\ \E n \in 1..Len(meshes) :
                          /\ meshes[n].meshRef = ref
                          /\ meshes[n].textureIndex = s[1]
                          /\ meshes[n].componentIndex = s[2]
    /\ (mdgPhase = "returned" /\ parsersRun = <<"ps2">>) =>
          /\ mdgResult = (meshes # <<>>)
          /\ \A s \in SlotsOf(mdl3Metadata) :
                LET chain == ChainOf(geometry,
                                     ReadLookup(mdl3Metadata, s[1], s[2]))
                IN  \A i \in 1..Len(chain) :
                       FirstStripDecodes(geometry, chain[i])
                       => \E n \in 1..Len(meshes) :
                             /\ meshes[n].meshRef = chain[i]
                             /\ meshes[n].textureIndex = s[1]
                             /\ meshes[n].componentIndex = s[2]

NamedCollision(name) ==
    /\ Len(name) >= 3
    /\ name[1] \in {"C", "c"}
    /\ name[2] = (IF name[1] = "C" THEN "M" ELSE "m")
    /\ name[3] = "_"

PlainNames(md) == [md EXCEPT !.TextureNames =
                                [t \in 1..md.TextureCount |-> PlainName]]

(* C7: in the PC path no emitted mesh belongs to a texture whose name      *)
(* starts with CM_ or cm_, and the headers are parsed at the same offsets, *)
(* with the same vertices, as they are when no texture has such a name.    *)
C7_CollisionTexturesExcluded ==
    PCParsed =>
      /\ parsersRun = <<"pc">> =>
            \A n \in 1..Len(meshes) :
               meshes[n].textureIndex < Len(mdl3Metadata.TextureNames)
               => ~NamedCollision(
                      mdl3Metadata.TextureNames[meshes[n].textureIndex + 1])
      /\ parsedMeshes
            = parseMDGPC(geometry, PlainNames(mdl3Metadata)).parsedMeshes

(* A header that only a collision texture references comes first in the    *)
(* vertex block; it is not emitted, and a mesh read behind it is.          *)
C7_Witness ==
    /\ PCParsed
    /\ parsersRun = <<"pc">>
    /\ Len(mdl3Metadata.TextureNames) = 2
    /\ NamedCollision(mdl3Metadata.TextureNames[1])
    /\ ReadLookup(mdl3Metadata, 0, 0) = meshOrder[1]
    /\ parsedMeshes[1].validForRender
    /\ \A n \in 1..Len(meshes) : meshes[n].meshRef # meshOrder[1]
    /\ \E n \in 1..Len(meshes) :
          meshes[n].vertices[1]
             = globalVertexDataStart + (48 * parsedMeshes[1].totalVertices)

(* C8: the PS2 parser is used exactly when 00 80 02 6C stands at an offset *)
(* below 1000 inside the buffer; otherwise the PC parser runs first and    *)
(* the generic parser runs after it exactly when the PC parser returned    *)
(* false or no mesh; the generic parser never runs after the PS2 parser.   *)
C8_FormatDetection ==
    mdgPhase # "idle" =>
      /\ (parsersRun[1] = "ps2")
            <=> (\E p \in geometry.markers :
                    p < 1000 /\ p + 4 <= geometry.size)
      /\ parsersRun[1] = "ps2" => parsersRun = <<"ps2">>
      /\ parsersRun[1] # "ps2" =>
            /\ parsersRun[1] = "pc"
            /\ mdgPhase = "returned" =>
                  LET pc == parseMDGPC(geometry, mdl3Metadata)
                  IN  (parsersRun = <<"pc", "generic">>)
                         <=> (~pc.ok \/ pc.meshes = <<>>)
-----------------------------------------------------------------------------
(* Actions of the model header decoder *)

(* loaded = mdl.loadTY2(data.data(), 0) on a fresh mdl2 object. *)
LoadTY2 ==
    /\ mdlPhase = "idle"
    /\ \E w4 \in CountValues, w6 \in CountValues :
       \E w8 \in {0, 1001}, w10 \in {0, 1001}, w30 \in {0, 1001} :
       \E w12 \in {0, 96, 10000, 10001}, w14 \in {0, 1, 1001} :
       \E records \in [0..(MaxRecords - 1) -> {"ok", "bad"}] :
       \E mdl3Throws \in BOOLEAN, nameThrows \in BOOLEAN, flag \in BOOLEAN :
       \E buffer \in {MdlBuffer(w4, w6, w8, w10, w12, w14, w30, records,
                                mdl3Throws, nameThrows)} :
       \E r \in {loadTY2(buffer, 0, FreshMdl(flag))} :
          /\ mdlBuffer' = buffer
          /\ mdl' = r.obj
          /\ mdlLoaded' = r.result
          /\ mdl3Returned' = r.mdl3Returned
          /\ legacyEntered' = r.legacyEntered
          /\ parsedOffsets' = r.parsedAt
    /\ mdlPhase' = "returned"
    /\ UNCHANGED <<mdgVars, buildVars, appVars, laterVars>>

(* Content::load<Model> returns and its mdl2 object is destroyed. *)
ReleaseMdl ==
    /\ mdlPhase = "returned"
    /\ mdlPhase' = "idle"
    /\ mdlBuffer' = EmptyMdlBuffer
    /\ mdl' = FreshMdl(FALSE)
    /\ mdlLoaded' = FALSE
    /\ mdl3Returned' = FALSE
    /\ legacyEntered' = FALSE
    /\ parsedOffsets' = <<>>
    /\ UNCHANGED <<mdgVars, buildVars, appVars, laterVars>>

MdlNext == LoadTY2 \/ ReleaseMdl

MdlInit == DecodersIdle /\ BuildInit /\ AppIdle

MdlSpec == MdlInit /\ [][MdlNext]_vars

-----------------------------------------------------------------------------
(* Properties of the model header decoder *)

(* Whether the record with index k (from 0) makes parse_subobject throw. *)
RecordThrows(k) == k < MaxRecords /\ mdlBuffer.records[k] = "bad"

(* The legacy layout was decoded and loadTY2 returned true. *)
LegacyLoaded == mdlPhase = "returned" /\ legacyEntered /\ mdlLoaded

(* C9: loadTY2 enters the legacy layout exactly when loadTY2MDL3, called  *)
(* first, returned false; when the legacy decode returns true,            *)
(* subobjects has subobject_count entries; with subobject_offset above    *)
(* 10000, or 0 with a positive count, all are empty placeholders and no   *)
(* record is parsed; otherwise record i is parsed at subobject_offset +   *)
(* 80 * i whatever happened to the records before it, a record whose      *)
(* parse throws gives the empty placeholder, and any other record gives   *)
(* its own content.                                                       *)
C9_LegacyFallback ==
    mdlPhase = "returned" =>
        /\ legacyEntered <=> ~mdl3Returned
        /\ mdl3Returned => mdlLoaded
        /\ LegacyLoaded =>
            LET n == mdlBuffer.words[6]
                base == mdlBuffer.words[12] + 65536 * mdlBuffer.words[14]
            IN  /\ Len(mdl.subobjects) = n
                /\ IF base > 10000 \/ (base = 0 /\ n > 0)
                   THEN /\ parsedOffsets = <<>>
                        /\ \A i \in 1..n : mdl.subobjects[i] = EmptySubobject
                   ELSE /\ Len(parsedOffsets) = n
                        /\ \A i \in 1..n :
                            /\ parsedOffsets[i] = base + 80 * (i - 1)
                            /\ RecordThrows(i - 1) =>
                                   mdl.subobjects[i] = EmptySubobject
                            /\ ~RecordThrows(i - 1) =>
                                   mdl.subobjects[i].triangle_count = i

(* A legacy decode in which a record failed and the record after it was   *)
(* parsed, 80 bytes on.                                                   *)
C9_Witness ==
    /\ LegacyLoaded
    /\ \E i \in 1..(Len(parsedOffsets) - 1) :
        /\ RecordThrows(i - 1)
        /\ mdl.subobjects[i] = EmptySubobject
        /\ mdl.subobjects[i + 1].triangle_count = i + 1
        /\ parsedOffsets[i + 1] = parsedOffsets[i] + 80

(* The six counts of the MDL3 header, as the buffer holds them. *)
HeaderCount(pos) == mdlBuffer.words[pos]

(* C10 as amended: loadTY2MDL3 returns false whenever one of the four     *)
(* header counts ComponentCount, TextureCount, AnimNodeCount,             *)
(* RefPointCount exceeds 1000.                                            *)
C10_FourCountsBounded ==
    (mdlPhase = "returned" /\ \E pos \in {4, 6, 8, 10} : HeaderCount(pos) > 1000)
        => ~mdl3Returned

(* RefPointCount alone is above 1000 and loadTY2MDL3 returned false. *)
C10_Witness ==
    /\ mdlPhase = "returned"
    /\ HeaderCount(10) > 1000
    /\ \A pos \in {4, 6, 8, 14, 30} : HeaderCount(pos) <= 1000
    /\ ~mdlBuffer.mdl3Throws
    /\ ~mdl3Returned

(* C10 as stated: loadTY2MDL3 returns false whenever one of the six       *)
(* header counts ComponentCount, TextureCount, AnimNodeCount,             *)
(* RefPointCount, MeshCount, StripCount exceeds 1000.                     *)
C10_SixCountsBounded ==
    (mdlPhase = "returned" /\
     \E pos \in {4, 6, 8, 10, 14, 30} : HeaderCount(pos) > 1000)
        => ~mdl3Returned

-----------------------------------------------------------------------------
(* Content::load<Model>(name) on a file the archive holds, with an empty  *)
(* model cache: header decode, then the geometry.                         *)
DecodeModel ==
    /\ hdrPhase = "idle"
    /\ mdlPhase = "idle"
    /\ \E hasMdg \in BOOLEAN, signed \in BOOLEAN, flag \in BOOLEAN :
       \E w4 \in {0, 2, 1001}, w6 \in 0..MaxRecords, w8 \in {0, 1001} :
       \E w12 \in {0, 96, 10001}, w14 \in {0, 16} :
       \E records \in [0..(MaxRecords - 1) -> {"ok", "bad"}] :
       \E mdl3Throws \in BOOLEAN, nameThrows \in BOOLEAN :
       \E file \in MdgFiles :
       \E buffer \in {ModelFile(MdlBuffer(w4, w6, w8, 0, w12, w14, 0, records,
                                          mdl3Throws, nameThrows), signed)} :
       \E h \in {DecodeHeader(hasMdg, buffer, FreshMdl(flag))} :
       \E g \in {IF h.loaded
                 THEN SelectGeometry(hasMdg, charSigned, h.obj, file)
                 ELSE [returned |-> TRUE, model |-> NullProduced]} :
          /\ isTY2' = hasMdg
          /\ mdlBuffer' = buffer
          /\ mdgFile' = file
          /\ decoderCalls' = h.calls
          /\ escaped' = h.escaped
          /\ gen1Call' = h.gen1
          /\ mdl' = h.obj
          /\ mdlLoaded' = h.loaded
          /\ produced' = IF h.escaped THEN NullProduced ELSE g.model
          /\ hdrPhase' = IF h.escaped THEN "unwinding"
                         ELSE IF g.returned THEN "returned" ELSE "running"
    /\ UNCHANGED <<mdlPhase, mdl3Returned, legacyEntered, parsedOffsets>>
    /\ UNCHANGED <<mdgVars, buildVars, appVars, arcVars, startVars, pcVars, skinVars, readVars, guiVars>>

(* The caller drops the result; the next load starts afresh. *)
ReleaseModel ==
    /\ hdrPhase \in {"returned", "unwinding"}
    /\ hdrPhase' = "idle"
    /\ isTY2' = FALSE
    /\ decoderCalls' = <<>>
    /\ escaped' = FALSE
    /\ gen1Call' = NoLoadCall
    /\ mdgFile' = DetectionInput(2000, 1500, FALSE)
    /\ produced' = NullProduced
    /\ mdlBuffer' = EmptyMdlBuffer
    /\ mdl' = FreshMdl(FALSE)
    /\ mdlLoaded' = FALSE
    /\ UNCHANGED <<mdlPhase, mdl3Returned, legacyEntered, parsedOffsets>>
    /\ UNCHANGED <<mdgVars, buildVars, appVars, arcVars, startVars, pcVars, skinVars, readVars, guiVars>>

ModelNext == DecodeModel \/ ReleaseModel

ModelInit == DecodersIdle /\ BuildInit /\ AppIdle

ModelSpec == ModelInit /\ [][ModelNext]_vars

-----------------------------------------------------------------------------
(* Properties of the header decode of Content::load<Model> *)

(* Content::load<Model> is over, by a return or by an exception. *)
LoadOver == hdrPhase \in {"returned", "unwinding"}

(* C11: no exception leaves mdl2::load or Content::load<Model> (loadTY2   *)
(* catches all of its own): a decode failure, a subobject offset above    *)
(* 1000000 in a file without .mdg included, ends in a false or null       *)
(* return value.                                                          *)
C11_NoExceptionLeaves ==
    LoadOver =>
        /\ ~gen1Call.threw
        /\ ~escaped
        /\ ~mdlLoaded => (hdrPhase = "returned" /\ produced = NullProduced)

(* C12: when the u32 at offset 0 is not 843859021, mdl2::load returns     *)
(* false after reading offset 0 only, and bounds, name and subobjects of  *)
(* the object are what they were before the call.                         *)
C12_SignatureMismatchLeavesObject ==
    (LoadOver /\ gen1Call.called
        /\ mdlBuffer.words[0] + 65536 * mdlBuffer.words[2] # 843859021) =>
        /\ ~gen1Call.result
        /\ ~gen1Call.threw
        /\ gen1Call.read = {0}
        /\ mdl.bounds = gen1Call.before.bounds
        /\ mdl.name = gen1Call.before.name
        /\ mdl.subobjects = gen1Call.before.subobjects

(* mdl2::load refused the signature of an object whose bounds loadTY2     *)
(* had already written.                                                   *)
C12_Witness ==
    /\ LoadOver /\ gen1Call.called /\ ~gen1Call.result
    /\ mdlBuffer.words[0] # 17485
    /\ gen1Call.before.bounds # FreshMdl(FALSE).bounds
    /\ mdl.bounds = gen1Call.before.bounds

(* The header was accepted by the generation-1 fallback only. *)
AcceptedByFallback ==
    /\ Len(decoderCalls) = 2
    /\ decoderCalls[2].result

(* C13: loadTY2 is tried first exactly when the .mdg exists, load is      *)
(* tried after loadTY2 only when loadTY2 returned false, and a header     *)
(* that only the generation-1 fallback accepted gives a model built from  *)
(* the vertex data embedded in the .mdl.                                  *)
C13_DecodeOrderAndSource ==
    LoadOver =>
        /\ decoderCalls # <<>>
        /\ (decoderCalls[1].fn = "loadTY2") <=> isTY2
        /\ \A k \in 2..Len(decoderCalls) :
               /\ decoderCalls[k].fn = "load"
               /\ decoderCalls[k - 1].fn = "loadTY2"
               /\ ~decoderCalls[k - 1].result
        /\ AcceptedByFallback => produced.source = "embedded"

(* The layout that accepted the header, "none" if none did. *)
AcceptedLayout ==
    IF decoderCalls # <<>> /\ decoderCalls[Len(decoderCalls)].result
    THEN decoderCalls[Len(decoderCalls)].layout
    ELSE "none"

FloatsAt(p1, p2, p3) ==
    <<mdlBuffer.floats[p1], mdlBuffer.floats[p2], mdlBuffer.floats[p3]>>

(* C15 as amended: for every model loaded, bounds_crn and bounds_size are *)
(* the floats at header offsets 32/36/40 and 48/52/56 when the header was *)
(* accepted by mdl2::load or by the legacy layout of loadTY2, and the     *)
(* floats at 0x30/0x34/0x38 and 0x40/0x44/0x48 when it was accepted as    *)
(* MDL3, whatever the subobject count.                                    *)
C15_BoundsFromHeader ==
    (hdrPhase = "returned" /\ produced.source # "none") =>
        IF AcceptedLayout = "MDL3"
        THEN /\ produced.bounds_crn = FloatsAt(48, 52, 56)
             /\ produced.bounds_size = FloatsAt(64, 68, 72)
        ELSE /\ produced.bounds_crn = FloatsAt(32, 36, 40)
             /\ produced.bounds_size = FloatsAt(48, 52, 56)

(* A model with an MDL3 header and two components was loaded. *)
C15_Witness ==
    /\ hdrPhase = "returned" /\ produced.source = "mdg"
    /\ AcceptedLayout = "MDL3"
    /\ Len(mdl.subobjects) = 2
    /\ produced.bounds_crn = FloatsAt(48, 52, 56)

(* C15 as stated: for every model loaded, MDL3 header included,           *)
(* bounds_crn is the floats at 32/36/40 and bounds_size those at          *)
(* 48/52/56.                                                              *)
C15_BoundsAtFixedOffsets ==
    (hdrPhase = "returned" /\ produced.source # "none") =>
        /\ produced.bounds_crn = FloatsAt(32, 36, 40)
        /\ produced.bounds_size = FloatsAt(48, 52, 56)

-----------------------------------------------------------------------------
(* Properties of the generation-1 triangulation *)

(* The number of vertices of the segments before segment i (from 1). *)
VerticesOfSegmentsBefore(i) == SumSeq(SubSeq(segments, 1, i - 1))

(* The number of triangles of the segments before segment i. *)
TrianglesOfSegmentsBefore(i) ==
    SumSeq([j \in 1..(i - 1) |-> segments[j] - 2])

(* C14: on the generation-1 path a mesh whose segments have n_1..n_k      *)
(* vertices, all at least 3, gives n_1+..+n_k vertices and                *)
(* (n_1-2)+..+(n_k-2) triangles, the t-th triangle of segment i being     *)
(* (b+t, b+t+2, b+t+1) with b the number of vertices before segment i;    *)
(* one segment of 4 vertices gives the indices 0,2,1,1,3,2.               *)
C14_Gen1Triangulation ==
    (buildPath = "gen1" /\ \A i \in 1..Len(segments) : segments[i] >= 3) =>
        /\ Len(vertices) = SumSeq(segments)
        /\ Len(indices) = 3 * TrianglesOfSegmentsBefore(Len(segments) + 1)
        /\ \A i \in 1..Len(segments) : \A t \in 0..(segments[i] - 3) :
            LET b == VerticesOfSegmentsBefore(i)
                at == 3 * (TrianglesOfSegmentsBefore(i) + t)
            IN  /\ indices[at + 1] = b + t
                /\ indices[at + 2] = b + t + 2
                /\ indices[at + 3] = b + t + 1
        /\ segments = <<4>> => indices = <<0, 2, 1, 1, 3, 2>>

(* A mesh of a 4-vertex segment followed by a 3-vertex segment. *)
C14_Witness ==
    /\ buildPath = "gen1"
    /\ segments = <<4, 3>>
    /\ Len(vertices) = 7
    /\ indices = <<0, 2, 1, 1, 3, 2, 4, 6, 5>>

-----------------------------------------------------------------------------
(* Actions of the archive reader *)

LoadFrom(d) ==
    \E r \in {ArchiveLoad(d)} :
        /\ disk' = d
        /\ arc' = r.arc
        /\ arcResult' = r.result
        /\ arcPhase' = "loaded"
        /\ query' = NoQuery
        /\ UNCHANGED <<mdgVars, mdlVars, hdrVars, buildVars, appVars, startVars, pcVars, skinVars, readVars, guiVars>>

(* archives[archiveIndex] = new Archive(); archives[archiveIndex]->load(path) *)
LoadArchive ==
    /\ arcPhase = "idle"
    /\ \/ \E n \in 0..MaxFiles, foldercount \in 0..1 :
          \E names \in [1..n -> FileNames] :
          \E sizes \in [1..n -> {0, 2}] :
          \E offsets \in [1..n -> {1, RKV1Size(n, foldercount) - 1}] :
             LoadFrom(RKV1Disk([i \in 1..n |->
                                   [name |-> names[i], folder |-> 0,
                                    size |-> sizes[i], offset |-> offsets[i],
                                    date |-> 7]],
                               foldercount))
       \/ \E n \in 0..MaxFiles : \E names \in [1..n -> FileNames] :
          \E sizes \in [1..n -> {0, 2}] :
             LoadFrom(RKV2Disk([i \in 1..n |->
                                   [name |-> names[i], size |-> sizes[i],
                                    offset |-> 28 + i]]))
       \/ \E d \in OtherDisks : LoadFrom(d)

(* getFile(name, file) and getFileData(name, data) on the loaded archive. *)
Lookup ==
    /\ arcPhase = "loaded"
    /\ \E name \in FileNames :
        query' = [asked |-> TRUE, name |-> name, file |-> getFile(arc, name),
                  data |-> getFileData(arc, disk, name)]
    /\ UNCHANGED <<arcPhase, disk, arc, arcResult>>
    /\ UNCHANGED <<mdgVars, mdlVars, hdrVars, buildVars, appVars, startVars, pcVars, skinVars, readVars, guiVars>>

(* The Archive is dropped and another path is tried. *)
CloseArchive ==
    /\ arcPhase = "loaded"
    /\ arcPhase' = "idle"
    /\ disk' = NoDisk
    /\ arc' = FreshArchive
    /\ arcResult' = FALSE
    /\ query' = NoQuery
    /\ UNCHANGED <<mdgVars, mdlVars, hdrVars, buildVars, appVars, startVars, pcVars, skinVars, readVars, guiVars>>

ArcNext == LoadArchive \/ Lookup \/ CloseArchive

ArcInit == DecodersIdle /\ BuildInit /\ AppIdle

ArcSpec == ArcInit /\ [][ArcNext]_vars

-----------------------------------------------------------------------------
(* Properties of the archive reader *)

(* A well-formed RKV1 archive was loaded. *)
RKV1Loaded ==
    arcPhase = "loaded" /\ arcResult /\ arc.version = "RKV1" /\ disk.tag = "data"

(* C16: for an RKV1 archive whose trailer declares N files, getAllFiles   *)
(* returns N names, and for each of the N table entries getFileData      *)
(* returns true with exactly size bytes, those stored in the file at the *)
(* entry's offset.                                                        *)
C16_TableComplete ==
    RKV1Loaded =>
        /\ Cardinality(DOMAIN getAllFiles(arc)) = disk.trailer.filecount
        /\ \A i \in 1..disk.trailer.filecount :
            LET e == disk.table[i]
                r == getFileData(arc, disk, e.name)
            IN  /\ r.ok
                /\ Len(r.data) = e.size
                /\ \A k \in 1..e.size : r.data[k] = Byte(e.offset + k - 1)

IsLetter(c) == (c >= 65 /\ c <= 90) \/ (c >= 97 /\ c <= 122)

(* Two names that differ in letter case at most. *)
SameButCase(n1, n2) ==
    /\ Len(n1) = Len(n2)
    /\ \A k \in 1..Len(n1) :
        \/ n1[k] = n2[k]
        \/ IsLetter(n1[k]) /\ IsLetter(n2[k]) /\ Abs(n1[k] - n2[k]) = 32

(* C17: on a loaded archive, getFile gives the same success flag and the  *)
(* same File, and getFileData the same result, for any two names that     *)
(* differ only in letter case.                                            *)
C17_CaseInsensitiveLookup ==
    (arcPhase = "loaded" /\ query.asked) =>
        \A other \in FileNames :
            SameButCase(query.name, other) =>
                /\ getFile(arc, other) = query.file
                /\ getFileData(arc, disk, other) = query.data

(* "Ab" was looked up in an archive that stores "ab", and was found. *)
C17_Witness ==
    /\ arcPhase = "loaded" /\ query.asked
    /\ query.name = <<65, 98>>
    /\ query.file.found /\ query.file.file.name = <<97, 98>>
    /\ query.data.ok

(* C18: Archive::load returns false and the file map is empty when the    *)
(* path does not open, when the file is empty and when no format was      *)
(* identified; it returns true only with the format RKV2, for a file      *)
(* that starts with "RKV2", or RKV1.                                      *)
C18_LoadFailures ==
    arcPhase = "loaded" =>
        /\ (~disk.readable \/ disk.size = 0 \/ arc.version = "UNKNOWN") =>
               (~arcResult /\ DOMAIN arc.files = {})
        /\ arcResult =>
               /\ arc.version \in {"RKV1", "RKV2"}
               /\ (arc.version = "RKV2") <=> (disk.tag = "RKV2")

(* An empty file was refused. *)
C18_Witness ==
    /\ arcPhase = "loaded"
    /\ disk.readable /\ disk.size = 0
    /\ ~arcResult /\ DOMAIN arc.files = {}

-----------------------------------------------------------------------------
(* Start-up *)

(* What Config holds for one archive path: no path, a path whose load     *)
(* fails, or an archive with some assets, whose shader source may or may  *)
(* not compile.                                                           *)
StartConfigs ==
    {[configured |-> FALSE, ok |-> FALSE, files |-> {}, decodable |-> {}],
     [configured |-> TRUE, ok |-> FALSE, files |-> {}, decodable |-> {}]} \cup
    {c \in [configured : {TRUE}, ok : {TRUE},
            files : SUBSET ({ShaderName} \cup TextureNames),
            decodable : SUBSET {ShaderName}] : c.decodable \subseteq c.files}

(* Content::loadRKV as Application::initialize calls it: the slot gets a  *)
(* new Archive also when its load fails.                                  *)
StartSlot(c) ==
    IF ~c.configured THEN NullArchive
    ELSE [loaded |-> TRUE, files |-> c.files, decodable |-> c.decodable]

(* Content::load<Shader>: NULL without an archive; the cached shader; a   *)
(* default shader when the archive has no such file; else the archive's,  *)
(* or NULL when its construction throws.                                  *)
ContentLoadShader(name, archive, cache) ==
    IF ~archive.loaded
    THEN [shader |-> "null", cache |-> cache]
    ELSE IF cache[name] # "null"
    THEN [shader |-> cache[name], cache |-> cache]
    ELSE IF name \notin archive.files
    THEN [shader |-> "default", cache |-> [cache EXCEPT ![name] = "default"]]
    ELSE IF name \in archive.decodable
    THEN [shader |-> "archive", cache |-> [cache EXCEPT ![name] = "archive"]]
    ELSE [shader |-> "null", cache |-> cache]

(* Content::load<Texture>: the default texture without an archive or      *)
(* without the file; otherwise the cached or a new Texture.               *)
ContentLoadTexture(name, archive, cache) ==
    IF ~archive.loaded
    THEN [texture |-> "default", cache |-> cache]
    ELSE IF cache[name] # "null"
    THEN [texture |-> cache[name], cache |-> cache]
    ELSE IF name \in archive.files
    THEN [texture |-> name, cache |-> [cache EXCEPT ![name] = name]]
    ELSE [texture |-> "default", cache |-> cache]

(* Application::initialize: both archives, the active archive, then the   *)
(* two loads of standard.shader; terminate() when one of them is NULL.    *)
Initialize ==
    /\ startPhase = "idle"
    /\ \E c0 \in StartConfigs, c1 \in StartConfigs :
        LET slots == [i \in 0..1 |-> StartSlot(IF i = 0 THEN c0 ELSE c1)]
            active == IF c0.ok THEN 0 ELSE IF c1.ok THEN 1 ELSE 0
            s1 == ContentLoadShader(ShaderName, slots[active], shaders)
            s2 == ContentLoadShader(ShaderName, slots[active], s1.cache)
        IN  /\ archives' = slots
            /\ activeArchiveIndex' = active
            /\ startLoaded' = [i \in 0..1 |-> IF i = 0 THEN c0.ok ELSE c1.ok]
            /\ shader' = s1.shader
            /\ IF s1.shader = "null"
               THEN /\ basic' = basic
                    /\ shaders' = s1.cache
                    /\ startPhase' = "terminated"
               ELSE /\ basic' = s2.shader
                    /\ shaders' = s2.cache
                    /\ startPhase' = IF s2.shader = "null" THEN "terminated"
                                     ELSE "running"
    /\ UNCHANGED <<textures, lastTexture>>
    /\ UNCHANGED <<contentModels, models, currentModelArchiveIndex,
                   currentModelName, guiCurrentModel, guiCurrentModelName,
                   loadCalls, lastLoaded>>
    /\ UNCHANGED <<buildVars, mdgVars, mdlVars, hdrVars, arcVars, pcVars, skinVars, readVars, guiVars>>

(* Content::load<Texture>(name) while the application runs. *)
LoadTexture ==
    /\ startPhase = "running"
    /\ \E name \in TextureNames :
        LET r == ContentLoadTexture(name, archives[activeArchiveIndex], textures)
        IN  /\ textures' = r.cache
            /\ lastTexture' = [asked |-> TRUE, name |-> name,
                               texture |-> r.texture]
    /\ UNCHANGED <<startPhase, startLoaded, shader, basic, shaders>>
    /\ UNCHANGED <<buildVars, appVars, mdgVars, mdlVars, hdrVars, arcVars, pcVars, skinVars, readVars, guiVars>>

StartNext == Initialize \/ LoadTexture

StartInit == AppIdle /\ BuildInit /\ DecodersIdle

StartSpec == StartInit /\ [][StartNext]_vars

(* ty1Loaded and ty2Loaded are both false. *)
NoArchiveLoaded == ~startLoaded[0] /\ ~startLoaded[1]

(* The files of the active archive. *)
ActiveFiles == archives[activeArchiveIndex].files

(* C19: when no archive could be loaded at start-up, or the shader or     *)
(* texture asked for is not in the active archive, Content::load<Shader>  *)
(* gives a default-generated shader and Content::load<Texture> the        *)
(* default texture, and Application::initialize reaches the main loop     *)
(* without terminate().                                                   *)
C19_DefaultsInsteadOfAbort ==
    startPhase # "idle" =>
        /\ (NoArchiveLoaded \/ ShaderName \notin ActiveFiles) =>
               /\ shader = "default" /\ basic = "default"
               /\ startPhase = "running"
        /\ (lastTexture.asked
              /\ (NoArchiveLoaded \/ lastTexture.name \notin ActiveFiles)) =>
               lastTexture.texture = "default"

(* The same, for start-ups that left an Archive object in the active slot. *)
StartWithArchiveObject ==
    (startPhase # "idle" /\ archives[activeArchiveIndex].loaded) =>
        C19_DefaultsInsteadOfAbort

-----------------------------------------------------------------------------
(* Lifetime of the Models that Application::loadModel replaces *)

(* The Models Content's cache holds. *)
CachedModels == {contentModels[n] : n \in ModelNames} \ {NullModel}

(* C20 (as stated): after a loadModel call no component, Content's model  *)
(* cache included, holds a Model other than the displayed one, so at most *)
(* one decoded Model exists.                                              *)
C20_ReplacedModelReleased ==
    /\ Cardinality(CachedModels) <= 1
    /\ \A m \in CachedModels : models = <<m>>

(* One loadModel call: the Application and the Gui hold only the Model    *)
(* the call returned, and Content's cache keeps every Model it held,      *)
(* the replaced one included.                                             *)
LoadKeepsReplacedModel ==
    /\ models' = IF lastLoaded' # NullModel THEN <<lastLoaded'>> ELSE <<>>
    /\ guiCurrentModel' = lastLoaded'
    /\ lastLoaded' # NullModel => lastLoaded' \in CachedModels'
    /\ \A n \in ModelNames :
         contentModels[n] # NullModel => contentModels'[n] = contentModels[n]
    /\ \A k \in 1..Len(models) : models[k] \in CachedModels'

(* C20 (amended): after each loadModel call Application::models holds     *)
(* only the Model that call returned and the Gui's current model is that  *)
(* Model or cleared; a replaced Model is not released but stays in        *)
(* Content's model cache, which keeps every Model it has handed out.      *)
C20_ReplacedModelStaysCached == [][LoadKeepsReplacedModel]_vars

(* A second Model is displayed while the first is still in the cache. *)
C20_Witness ==
    /\ loadCalls >= 2
    /\ Len(models) = 1
    /\ \E n \in ModelNames :
         /\ n # models[1].name
         /\ contentModels[n] # NullModel
         /\ contentModels[models[1].name] = models[1]

(* C26: a successful loadModel(name, archiveIndex) displays the model     *)
(* decoded from the archive at archiveIndex, also when a model of the     *)
(* same name was loaded earlier from the other archive.                   *)
C26_ModelFromRequestedArchive ==
    (loadCalls > 0 /\ lastLoaded # NullModel) =>
        /\ models = <<lastLoaded>>
        /\ lastLoaded.name = currentModelName
        /\ lastLoaded.archive = currentModelArchiveIndex

-----------------------------------------------------------------------------
(* PC meshes: from the strip descriptors to the triangles *)

(* Vertices of a PC mesh: two positions far apart. *)
PCVertexValues == {VertexList[1], VertexList[3]}

(* parseMDGPC keeps the descriptor counts of a mesh only when they align  *)
(* with its vertex count.                                                 *)
StoredStripCounts(descriptors, n) ==
    IF descriptors # <<>> /\ n >= 3 /\ StripGap(descriptors, n).countsAlign
    THEN descriptors
    ELSE <<>>

(* One PC mesh from its header to its render-mesh: parseMDGPC reads the   *)
(* descriptors and the vertices, Content::load<Model> triangulates.       *)
BuildPCMesh ==
    /\ buildPath = "idle" /\ pcPhase = "idle"
    /\ \E verts \in SeqsUpTo(PCVertexValues, MaxVerts) :
       \E descriptors \in SeqsUpTo(0..(MaxVerts - 2), MaxStrips) :
        LET strips == StoredStripCounts(descriptors, Len(verts))
            acc == TriangulateMdgMesh(verts, strips)
        IN  /\ stripDescriptors' = descriptors
            /\ UNCHANGED <<pcPhase, rawUvs, parsedVertices, useShiftedUvs>>
            /\ buildPath' = "pc"
            /\ vertices' = verts
            /\ stripVertexCounts' = strips
            /\ indices' = acc.indices
            /\ degenerateCount' = acc.degenerateCount
            /\ totalTriangleCount' = acc.totalTriangleCount
            /\ degenerateUvMismatch' = acc.degenerateUvMismatch
            /\ stripBreaks' = acc.stripBreaks
    /\ UNCHANGED <<segments, startIndex, count>>
    /\ UNCHANGED <<appVars, mdgVars, mdlVars, hdrVars, arcVars, startVars, skinVars, readVars, guiVars>>

(* The texcoord comparison of the heuristic (0.00001 on both axes). *)
SameRawUv(a, b) ==
    Abs(a[1] - b[1]) < Tolerance /\ Abs(a[2] - b[2]) < Tolerance

(* The comparison of positions of the heuristic. *)
SameRawPosition(a, b) ==
    /\ Abs(a[1] - b[1]) < Tolerance
    /\ Abs(a[2] - b[2]) < Tolerance
    /\ Abs(a[3] - b[3]) < Tolerance

(* The loop over i, i + 1 < totalVertices: adjacentPairs, matchesShift0   *)
(* and matchesShift1.                                                     *)
ShiftCounts(positions, uvs) ==
    LET n == Len(positions)
        pairs == {i \in 0..(n - 2) :
                     SameRawPosition(positions[i + 1], positions[i + 2])}
    IN  [adjacentPairs |-> Cardinality(pairs),
         matchesShift0 |->
             Cardinality({i \in pairs : SameRawUv(uvs[i + 1], uvs[i + 2])}),
         matchesShift1 |->
             Cardinality({i \in pairs :
                             i + 2 < n /\ SameRawUv(uvs[i + 2], uvs[i + 3])})]

(* The heuristic with the comparison of the two counts turned round. *)
SelectShiftWhenFewer(c) ==
    c.adjacentPairs > 0 /\ c.matchesShift1 < c.matchesShift0

(* useShiftedUvs *)
SelectShift(c) ==
    c.adjacentPairs > 0 /\ c.matchesShift1 > c.matchesShift0

(* The final loop: texcoord from rawUvs[uvIndex]. *)
AssignTexcoords(positions, uvs, shifted) ==
    [i \in 1..Len(positions) |->
        [position |-> positions[i],
         texcoord |-> uvs[IF shifted /\ i < Len(positions) THEN i + 1 ELSE i]]]

PCPositions == {<<0, 0, 0>>, <<1000000, 0, 0>>}

(* Raw texcoords: two within the tolerance of each other and one apart. *)
PCRawUvs == {<<0, 0>>, <<4, 0>>, <<0, 500000>>}

(* parseMDGPC, the vertex block of one mesh header: positions and raw     *)
(* UVs, the shift heuristic, the texcoords.                               *)
DecodePCVertices ==
    /\ buildPath = "idle" /\ pcPhase = "idle"
    /\ \E n \in 0..(MaxVerts - 1) :
       \E positions \in [1..n -> PCPositions], uvs \in [1..n -> PCRawUvs] :
        \E shifted \in {SelectShift(ShiftCounts(positions, uvs))} :
            /\ rawUvs' = uvs
            /\ useShiftedUvs' = shifted
            /\ parsedVertices' = AssignTexcoords(positions, uvs, shifted)
    /\ pcPhase' = "decoded"
    /\ UNCHANGED <<stripDescriptors, buildVars, skinVars, readVars, guiVars>>
    /\ UNCHANGED <<appVars, mdgVars, mdlVars, hdrVars, arcVars, startVars, skinVars, readVars, guiVars>>

(* On to the next mesh header. *)
NextPCHeader ==
    /\ pcPhase = "decoded"
    /\ pcPhase' = "idle"
    /\ rawUvs' = <<>>
    /\ parsedVertices' = <<>>
    /\ useShiftedUvs' = FALSE
    /\ UNCHANGED <<stripDescriptors, buildVars, skinVars, readVars, guiVars>>
    /\ UNCHANGED <<appVars, mdgVars, mdlVars, hdrVars, arcVars, startVars, skinVars, readVars, guiVars>>

(* The next mesh header. *)
NextPCMesh ==
    /\ buildPath = "pc"
    /\ stripDescriptors' = <<>>
    /\ UNCHANGED <<pcPhase, rawUvs, parsedVertices, useShiftedUvs>>
    /\ buildPath' = "idle"
    /\ vertices' = <<>>
    /\ stripVertexCounts' = <<>>
    /\ indices' = <<>>
    /\ degenerateCount' = 0
    /\ totalTriangleCount' = 0
    /\ degenerateUvMismatch' = 0
    /\ stripBreaks' = 0
    /\ UNCHANGED <<segments, startIndex, count>>
    /\ UNCHANGED <<appVars, mdgVars, mdlVars, hdrVars, arcVars, startVars, skinVars, readVars, guiVars>>

PCNext == BuildPCMesh \/ NextPCMesh \/ DecodePCVertices \/ NextPCHeader

PCSpec == StripInit /\ [][PCNext]_vars

(* What the triangulation of a mesh left behind. *)
BuiltAcc ==
    StripAcc(indices, degenerateCount, totalTriangleCount,
             degenerateUvMismatch, stripBreaks)

(* The connector length the claim gives for lengths L and V vertices. *)
ClaimedGap(L, V) ==
    IF SumSeq(L) = V THEN 0
    ELSE IF SumSeq(L) + 2 * (Len(L) - 1) = V THEN 2
    ELSE 1

CountsMatch(L, V) ==
    \/ SumSeq(L) = V
    \/ SumSeq(L) + 2 * (Len(L) - 1) = V
    \/ SumSeq(L) + (Len(L) - 1) = V

(* Strip j starts at the sum over i < j of (L_i + g) and has length L_j. *)
ClaimedRanges(L, g) ==
    [j \in 1..Len(L) |-> <<SumSeq(SubSeq(L, 1, j - 1)) + g * (j - 1), L[j]>>]

(* C21: with strip lengths L_1..L_s and V vertices, when sum(L) = V, or   *)
(* sum(L) + 2(s-1) = V, or sum(L) + (s-1) = V, strip j is triangulated    *)
(* over the range that starts at the sum over i < j of (L_i + g), g = 0,  *)
(* 2, 1 respectively, and has length L_j, and every such range lies       *)
(* inside the vertex array; when none of the three holds, the ranges are  *)
(* derived from the vertex data.                                          *)
C21_StripAccounting ==
    (buildPath = "pc" /\ stripDescriptors # <<>>) =>
        LET L == stripDescriptors
            V == Len(vertices)
            ranges == ClaimedRanges(L, ClaimedGap(L, V))
            derived == deriveStripRanges(vertices)
        IN  IF CountsMatch(L, V)
            THEN /\ BuiltAcc = AppendRanges(vertices, EmptyAcc, ranges)
                 /\ TriangulateMdgMesh(vertices, L) = BuiltAcc
                 /\ \A j \in 1..Len(L) : ranges[j][1] + ranges[j][2] <= V
            ELSE /\ BuiltAcc = AppendRanges(vertices, EmptyAcc, derived)
                 /\ TriangulateMdgMesh(vertices, L) = BuiltAcc

(* Two strips joined by a 2-vertex connector, the second one triangulated. *)
C21_Witness ==
    /\ buildPath = "pc"
    /\ Len(stripDescriptors) = 2
    /\ stripDescriptors[2] >= 3
    /\ Len(vertices) = SumSeq(stripDescriptors) + 2
    /\ \E k \in 1..Len(indices) : indices[k] >= stripDescriptors[1] + 2

(* The duplicate-position pairs (i, i+1), indices from 0. *)
DuplicatePairs ==
    {i \in 0..(Len(parsedVertices) - 2) :
        SameRawPosition(parsedVertices[i + 1].position,
                        parsedVertices[i + 2].position)}

(* rawUV[i] = rawUV[j], indices from 0, as the decoder compares them. *)
RawUvEqual(i, j) ==
    /\ i + 1 <= Len(rawUvs) /\ j + 1 <= Len(rawUvs)
    /\ SameRawUv(rawUvs[i + 1], rawUvs[j + 1])

(* C23: for a PC mesh of n vertices the +1 UV shift is selected exactly   *)
(* when there is an adjacent pair (i, i+1) of the same position and, over *)
(* those pairs, more have rawUV[i+1] = rawUV[i+2] than rawUV[i] =         *)
(* rawUV[i+1]; when selected, texcoord[i] = rawUV[i+1] for i < n-1 and    *)
(* texcoord[n-1] = rawUV[n-1]; otherwise texcoord[i] = rawUV[i].          *)
C23_UvShift ==
    pcPhase = "decoded" =>
        LET n == Len(parsedVertices)
            ahead == Cardinality({i \in DuplicatePairs : RawUvEqual(i + 1, i + 2)})
            here == Cardinality({i \in DuplicatePairs : RawUvEqual(i, i + 1)})
        IN  /\ useShiftedUvs <=> (DuplicatePairs # {} /\ ahead > here)
            /\ \A i \in 0..(n - 1) :
                 parsedVertices[i + 1].texcoord =
                     IF useShiftedUvs /\ i < n - 1 THEN rawUvs[i + 2]
                     ELSE rawUvs[i + 1]

(* The shift was selected and moved a texcoord. *)
C23_Witness ==
    /\ pcPhase = "decoded"
    /\ useShiftedUvs
    /\ Len(parsedVertices) >= 3
    /\ parsedVertices[1].texcoord # rawUvs[1]
    /\ parsedVertices[Len(parsedVertices)].texcoord = rawUvs[Len(rawUvs)]

-----------------------------------------------------------------------------
(* Properties of the ranges derived from the vertex data *)

(* vertices[i] and vertices[i + 1] (indices from 0) have the same position. *)
SamePair(i) ==
    i >= 0 /\ i + 1 < Len(vertices)
       /\ isSamePosition(vertices[i + 1], vertices[i + 2])

(* Index of the last vertex of a range. *)
RangeEnd(r) == r[1] + r[2] - 1

RECURSIVE TriangulateLongRanges(_, _)
TriangulateLongRanges(acc, ranges) ==
    IF ranges = <<>> THEN acc
    ELSE TriangulateLongRanges(
             IF ranges[1][2] >= 3
             THEN StripLoop(vertices,
                            [acc EXCEPT !.totalTriangleCount = @ + (ranges[1][2] - 2)],
                            ranges[1][1], ranges[1][2], 0)
             ELSE acc,
             Tail(ranges))

(* C22: deriveStripRanges terminates for every vertex array; its ranges   *)
(* are in increasing order, pairwise disjoint and inside [0, count); a    *)
(* range ends at index i exactly where vertices i and i+1 have the same   *)
(* position; when i+2 and i+3 have the same position too the next range   *)
(* starts at i+3, otherwise at i+1; only ranges of length >= 3 are        *)
(* triangulated.                                                          *)
C22_DerivedRanges ==
    (buildPath = "mdg") =>
        LET ranges == deriveStripRanges(vertices)
            n == Len(ranges)
            cnt == Len(vertices)
        IN  /\ n >= 1 /\ ranges[1][1] = 0 /\ RangeEnd(ranges[n]) = cnt - 1
            /\ \A k \in 1..n :
                 /\ ranges[k][1] >= 0 /\ ranges[k][2] >= 1
                 /\ RangeEnd(ranges[k]) < cnt
                 /\ \A i \in ranges[k][1]..(RangeEnd(ranges[k]) - 1) : ~SamePair(i)
            /\ \A k \in 1..(n - 1) :
                 LET i == RangeEnd(ranges[k]) IN
                 /\ SamePair(i)
                 /\ ranges[k + 1][1] = IF SamePair(i + 2) THEN i + 3 ELSE i + 1
            /\ BuiltAcc = TriangulateLongRanges(EmptyAcc, ranges)

(* Two ranges of three vertices around a connector of two duplicate pairs. *)
C22_Witness ==
    /\ buildPath = "mdg"
    /\ Len(vertices) >= 5
    /\ \E i \in 0..(Len(vertices) - 4) :
         /\ SamePair(i) /\ SamePair(i + 2)
         /\ \E k \in 1..(Len(deriveStripRanges(vertices)) - 1) :
              /\ RangeEnd(deriveStripRanges(vertices)[k]) = i
              /\ deriveStripRanges(vertices)[k + 1][1] = i + 3
    /\ Len(indices) >= 3

-----------------------------------------------------------------------------
(* Termination of the generation-1 index loop *)

(* The triangles a segment of n vertices stands for. *)
SegmentTriangles(n) == IF n >= 3 THEN n - 2 ELSE 0

(* The mesh was built and each segment gave its triangles and no more. *)
Gen1Built ==
    /\ buildPath = "gen1"
    /\ Len(indices) =
           3 * SumSeq([j \in 1..Len(segments) |-> SegmentTriangles(segments[j])])

(* C28: on the generation-1 path Content::load<Model> terminates for every *)
(* segment vertex count, 0 and 1 included, and appends no triangle for a   *)
(* segment of fewer than 3 vertices.                                       *)
C28_Gen1Terminates ==
    buildPath \in {"gen1", "gen1Diverged"} => Gen1Built

(* The same for meshes whose segments all have at least 2 vertices. *)
Gen1TerminatesFromTwo ==
    (/\ buildPath \in {"gen1", "gen1Diverged"}
     /\ \A j \in 1..Len(segments) : segments[j] >= 2) => Gen1Built

-----------------------------------------------------------------------------
(* Bone indices of a vertex of a default-format strip *)

(* Entries of an anim-node list (uint8_t). *)
ListEntries == {0, 126, 127, 255}

(* The anim-node lists of a model: none, or one of up to two entries. *)
AnimNodeLists ==
    {<<>>} \cup {<<list>> : list \in SeqsUpTo(ListEntries, 2)}

(* The 4th byte of a charData record and the last u16 of a shortData      *)
(* record.                                                                *)
BoneBytes == {0, 2, 3, 255}

BoneShorts == {0, 4, 7, 65535}

(* parseStrip, default format, one vertex: skin[1] from the charData and  *)
(* skin[2] from the shortData.                                            *)
DecodeBoneIndices ==
    /\ ~boneInput.read
    /\ \E byte \in BoneBytes, short \in BoneShorts,
          animNodeListIndex \in {0, 1, NoAnimNodeList},
          animNodeLists \in AnimNodeLists :
        /\ boneInput' = [read |-> TRUE, byte |-> byte, short |-> short,
                         animNodeListIndex |-> animNodeListIndex,
                         animNodeLists |-> animNodeLists]
        /\ skin' = <<0,
                     RemapBoneIndex1(byte, animNodeListIndex, animNodeLists),
                     RemapBoneIndex2(short, animNodeListIndex, animNodeLists)>>
    /\ UNCHANGED <<buildVars, appVars, mdgVars, mdlVars, hdrVars, arcVars,
                   startVars, pcVars, readVars, guiVars>>

(* The next vertex. *)
NextStripVertex ==
    /\ boneInput.read
    /\ boneInput' = NoBoneInput
    /\ skin' = <<0, 0, 0>>
    /\ UNCHANGED <<buildVars, appVars, mdgVars, mdlVars, hdrVars, arcVars,
                   startVars, pcVars, readVars, guiVars>>

SkinNext == DecodeBoneIndices \/ NextStripVertex

SkinSpec == StripInit /\ [][SkinNext]_vars

(* The value the remap formula gives for raw index b and shift s. *)
RemapFormula(b, s) ==
    LET in == boneInput
        shift == IF s = 1 THEN 2 ELSE 4
    IN  IF /\ in.animNodeListIndex # NoAnimNodeList
           /\ in.animNodeListIndex < Len(in.animNodeLists)
           /\ b < Len(in.animNodeLists[in.animNodeListIndex + 1])
        THEN (in.animNodeLists[in.animNodeListIndex + 1][b + 1] + 1) * shift
        ELSE b * shift

(* C24: in the default strip format, with b1 = byte >> 1 and b2 = u16 >>  *)
(* 2: when animNodeListIndex is not 0xFFFF, is below the number of lists  *)
(* and the bone index is below the list's length, skin[1] =               *)
(* (animNodeList[b1] + 1) << 1 and skin[2] = (animNodeList[b2] + 1) << 2; *)
(* otherwise skin[1] = b1 << 1 and skin[2] = b2 << 2; for every list      *)
(* entry in 0..255, without truncation.                                   *)
C24_BoneRemap ==
    boneInput.read =>
        /\ skin[2] = RemapFormula(boneInput.byte \div 2, 1)
        /\ skin[3] = RemapFormula(boneInput.short \div 4, 2)

(* The same for skin[2] alone, whose index is held in 16 bits. *)
Skin2Remap ==
    boneInput.read => skin[3] = RemapFormula(boneInput.short \div 4, 2)

-----------------------------------------------------------------------------
(* Which bytes of the geometry buffer loadWithMDL3Metadata reads *)

(* The buffer lengths and the strip vertex counts that are tried. *)
MaxReadSize == 100
MaxStripVerts == 3

ReadSizes == 0..MaxReadSize

(* The last index of n records of `stride` bytes from `base`, of which the *)
(* first `used` bytes are read; `before` when there is no record.          *)
LastRead(before, base, n, stride, used) ==
    IF n = 0 THEN before ELSE base + ((n - 1) * stride) + used - 1

(* The format detection loop: searchPos runs below min(size - 3, 1000) and *)
(* the && chain reads buffer[searchPos] and then one byte more for each    *)
(* byte that compared equal. `matched` is the number of bytes that         *)
(* compared equal at the last position looked at; memory past the buffer   *)
(* holds anything. A signed char never equals 0x80.                        *)
DetectionReads(signed, size, matched) ==
    LET limit == Min(SizeSub(size, 3), PS2SearchLimit)
        compared == IF signed THEN Min(matched, 1) ELSE matched
    IN  IF limit = 0 THEN NoIndex
        ELSE (limit - 1) + Min(compared, 3)

(* The reads of one mesh header whose meshRef passed                       *)
(* meshRef < 0 || meshRef >= size: stripCount at +0x6, animNodeListIndex   *)
(* at +0x8, and the next reference at +0xC when meshRef + 0xC + 4 <= size. *)
MeshHeaderReads(size, meshRef) ==
    IF meshRef + 12 + 4 <= size THEN meshRef + 12 + 3 ELSE meshRef + 8 + 1

(* mdg::parseStrip: the highest index read, with the checks and the        *)
(* strides of the code.                                                    *)
parseStripReads(size, offset, vertexCount, formatMarker2) ==
    IF offset + (vertexCount * 12) > size THEN NoIndex
    ELSE
    LET positions == LastRead(NoIndex, offset, vertexCount, 12, 12)
        afterPositions == offset + (vertexCount * 12)
    IN
    IF afterPositions + 2 > size THEN positions
    ELSE
    LET marker == afterPositions + 2 IN
    IF marker + 2 > size THEN positions
    ELSE
    LET attrs == marker + 2
        markerRead == marker + 1
        attrResult ==
            IF formatMarker2 = Format6A
            THEN IF attrs + (vertexCount * 3) > size
                 THEN [ok |-> FALSE, offset |-> attrs, highest |-> markerRead]
                 ELSE LET chars == LastRead(markerRead, attrs, vertexCount, 4, 3)
                          shorts == attrs + (vertexCount * 4) + 4
                                      + (vertexCount % 4)
                      IN  IF shorts + (vertexCount * 4) > size
                          THEN [ok |-> FALSE, offset |-> shorts,
                                highest |-> chars]
                          ELSE [ok |-> TRUE,
                                offset |-> shorts + (vertexCount * 8),
                                highest |-> Max(chars,
                                    LastRead(chars, shorts, vertexCount, 8, 4))]
            ELSE IF formatMarker2 = Format65
            THEN IF attrs + (vertexCount * 4) > size
                 THEN [ok |-> FALSE, offset |-> attrs, highest |-> markerRead]
                 ELSE [ok |-> TRUE, offset |-> attrs + (vertexCount * 8),
                       highest |-> LastRead(markerRead, attrs, vertexCount, 8, 4)]
            ELSE IF attrs + (vertexCount * 4) > size
                 THEN [ok |-> FALSE, offset |-> attrs, highest |-> markerRead]
                 ELSE LET chars == LastRead(markerRead, attrs, vertexCount, 4, 4)
                          shorts == attrs + (vertexCount * 4) + 4
                      IN  IF shorts + (vertexCount * 8) > size
                          THEN [ok |-> FALSE, offset |-> shorts,
                                highest |-> chars]
                          ELSE [ok |-> TRUE,
                                offset |-> shorts + (vertexCount * 8),
                                highest |-> LastRead(chars, shorts,
                                                     vertexCount, 8, 8)]
    IN
    IF ~attrResult.ok THEN attrResult.highest
    ELSE IF attrResult.offset + 4 > size THEN attrResult.highest
    ELSE
    LET colours == attrResult.offset + 4 IN
    IF colours + (vertexCount * 4) > size THEN attrResult.highest
    ELSE Max(attrResult.highest,
             LastRead(attrResult.highest, colours, vertexCount, 4, 4))

(* The format detection on a buffer of `size` bytes. *)
DetectFormat ==
    /\ readSite = "idle"
    /\ \E size \in ReadSizes, matched \in 0..3 :
        /\ readSite' = "detect"
        /\ readSize' = size
        /\ readHighest' = DetectionReads(charSigned, size, matched)
    /\ UNCHANGED <<buildVars, appVars, mdgVars, mdlVars, hdrVars, arcVars,
                   startVars, pcVars, skinVars, guiVars>>

(* One mesh header of the PS2 walk, behind an accepted reference. *)
ReadMeshHeader ==
    /\ readSite = "idle"
    /\ \E size \in ReadSizes :
       \E meshRef \in 1..(size - 1) :
        /\ readSite' = "header"
        /\ readSize' = size
        /\ readHighest' = MeshHeaderReads(size, meshRef)
    /\ UNCHANGED <<buildVars, appVars, mdgVars, mdlVars, hdrVars, arcVars,
                   startVars, pcVars, skinVars, guiVars>>

StripSite(formatMarker2) ==
    CASE formatMarker2 = Format6A -> "strip6A"
      [] formatMarker2 = Format65 -> "strip65"
      [] OTHER -> "stripDefault"

(* One call of parseStrip. *)
ReadStrip ==
    /\ readSite = "idle"
    /\ \E size \in ReadSizes, offset \in {0, 1},
          vertexCount \in 0..MaxStripVerts,
          formatMarker2 \in {Format6A, Format65, 0} :
        /\ readSite' = StripSite(formatMarker2)
        /\ readSize' = size
        /\ readHighest' = parseStripReads(size, offset, vertexCount,
                                          formatMarker2)
    /\ UNCHANGED <<buildVars, appVars, mdgVars, mdlVars, hdrVars, arcVars,
                   startVars, pcVars, skinVars, guiVars>>

(* The call returns and the buffer is released. *)
ReleaseBuffer ==
    /\ readSite # "idle"
    /\ readSite' = "idle"
    /\ readSize' = 0
    /\ readHighest' = NoIndex
    /\ UNCHANGED <<buildVars, appVars, mdgVars, mdlVars, hdrVars, arcVars,
                   startVars, pcVars, skinVars, guiVars>>

ReadNext == DetectFormat \/ ReadMeshHeader \/ ReadStrip \/ ReleaseBuffer

ReadSpec == MdgInit /\ [][ReadNext]_vars

(* C27: every byte loadWithMDL3Metadata reads from the geometry buffer is  *)
(* at an index below size: for every size (below 4 included), every mesh   *)
(* reference that passed meshRef < size and every strip vertex count, in   *)
(* the format detection, the mesh-header reads and the three parseStrip    *)
(* formats.                                                                *)
C27_ReadsInsideBuffer == readHighest < readSize \/ readHighest = NoIndex

(* The same for the reads of the default strip format alone. *)
DefaultStripReadsInside ==
    readSite = "stripDefault" =>
        (readHighest < readSize \/ readHighest = NoIndex)

(* The same for the format detection of a buffer of at least 3 bytes. *)
DetectionReadsInside ==
    (readSite = "detect" /\ readSize >= 3) =>
        (readHighest < readSize \/ readHighest = NoIndex)

-----------------------------------------------------------------------------
(* The Gui: geometry, search and event handlers *)

(* The longest search string the model types (the code stops at 96). *)
MaxSearch == 1
SearchCap == 96
windowHeight == 720

(* The spelling of the model names, as character codes. *)
Chars(name) ==
    CASE name = "a.mdl" -> <<97, 46, 109, 100, 108>>
      [] name = "b.mdl" -> <<98, 46, 109, 100, 108>>
      [] OTHER -> <<>>

ModelEntry(name, archiveName, archiveIndex) ==
    [name |-> name, archiveName |-> archiveName, archiveIndex |-> archiveIndex]

(* The lists Application::initialize can hand to setModelList: the .mdl    *)
(* files of TY1, then those of TY2.                                        *)
ModelLists ==
    {<<>>,
     <<ModelEntry("a.mdl", "TY1", 0)>>,
     <<ModelEntry("b.mdl", "TY2", 1)>>,
     <<ModelEntry("a.mdl", "TY1", 0), ModelEntry("b.mdl", "TY2", 1)>>}

(* Gui::initialize: the button. *)
buttonRect == GuiRect(10, 10, 200, 30)

(* The material list panel, for a window 1280 wide. *)
materialListRect == GuiRect(970, 170, 300, 200)

(* setModelList: the dropdown, one row of 30 for each category that has    *)
(* models.                                                                 *)
DropdownRectFor(ty1, ty2) ==
    LET categoryCount == (IF ty1 # <<>> THEN 1 ELSE 0)
                         + (IF ty2 # <<>> THEN 1 ELSE 0)
    IN  GuiRect(buttonRect.x, buttonRect.y + buttonRect.height + 2, 200,
                (categoryCount * 30) + 6)

(* What an unassigned dropdownRect can hold. *)
IndeterminateRects ==
    {NoRect, GuiRect(10, 42, 200, 36), GuiRect(10, 42, 200, 66)}

(* Cursor positions: on the button, in the dropdown (padding, first row,   *)
(* second row), in the gap between dropdown and submenu, in the submenu    *)
(* (padding, search box, first item), and on the material list.            *)
MousePoints ==
    {<<100, 20>>, <<100, 45>>, <<100, 60>>, <<100, 85>>, <<211, 60>>,
     <<300, 45>>, <<300, 60>>, <<300, 85>>, <<1000, 300>>}

(* Gui::containsCaseInsensitive *)
containsCaseInsensitive(haystack, needle) ==
    \/ needle = <<>>
    \/ \E i \in 1..Len(haystack) :
         \A j \in 1..Len(needle) :
            /\ i + j - 1 <= Len(haystack)
            /\ ToLower(haystack[i + j - 1]) = ToLower(needle[j])

(* rebuildFilteredIndicesIfNeeded: the indices (from 0) of the entries     *)
(* whose name contains the needle. Every change of a list or of a query     *)
(* marks the filter dirty, so the rebuilt list is the one in use.          *)
FilteredIndices(list, needle) ==
    LET keep(i) == containsCaseInsensitive(Chars(list[i + 1].name), needle)
        F[n \in 0..Len(list)] ==
            IF n = 0 THEN <<>>
            ELSE IF keep(n - 1) THEN Append(F[n - 1], n - 1) ELSE F[n - 1]
    IN  F[Len(list)]

ModelsOf(category, m1, m2) == IF category = 1 THEN m1 ELSE m2

SearchOf(category, s1, s2) == IF category = 1 THEN s1 ELSE s2

(* The height of the submenu for n list rows: padding, search box, rows,   *)
(* at most 70% of the window.                                              *)
SubmenuHeight(n) ==
    LET contentHeight == 5 + 25 + 5 + (n * 25) + 5
        maxSubmenuHeight == (windowHeight * 7) \div 10
    IN  IF contentHeight < maxSubmenuHeight THEN contentHeight
        ELSE maxSubmenuHeight

(* updateSubmenuScrollBounds: the submenu takes the height of its filtered *)
(* list. (The lists here fit the submenu: maxScroll and scrollOffset stay  *)
(* 0 and are not held.)                                                    *)
updateSubmenuScrollBounds(rect, open, category, m1, m2, s1, s2) ==
    IF ~open \/ (category # 1 /\ category # 2) THEN rect
    ELSE [rect EXCEPT !.height =
             SubmenuHeight(Len(FilteredIndices(ModelsOf(category, m1, m2),
                                               SearchOf(category, s1, s2))))]

(* The search box of the submenu. *)
SearchRect(rect) == GuiRect(rect.x + 5, rect.y + 5, rect.width - 10, 25)

ListTop(rect) == rect.y + 5 + 25 + 5

ListBottom(rect) == (rect.y + rect.height) - 5

(* Gui::setModelList *)
setModelList ==
    \E modelList \in ModelLists :
       \E m1 \in {SelectSeq(modelList, LAMBDA e : e.archiveName = "TY1")},
          m2 \in {SelectSeq(modelList, LAMBDA e : e.archiveName = "TY2")} :
        /\ ty1Models' = m1
        /\ ty2Models' = m2
        /\ dropdownRect' = DropdownRectFor(m1, m2)
        /\ UNCHANGED <<dropdownOpen, submenuOpen, hoveredCategory,
                       hoveredSubmenuItem, activeSearchCategory, ty1Search,
                       ty2Search, mouse, hovering, submenuRect>>
        /\ UNCHANGED <<buildVars, appVars, mdgVars, mdlVars, hdrVars, arcVars,
                       startVars, pcVars, skinVars, readVars>>

(* The menus closed with the search focus left where it is. *)
CloseMenusKeepingFocus(dropdown) ==
    /\ dropdownOpen' = dropdown
    /\ submenuOpen' = FALSE
    /\ hoveredCategory' = 0
    /\ hoveredSubmenuItem' = -1
    /\ UNCHANGED activeSearchCategory

(* Everything of the menu is closed. *)
CloseMenus(dropdown) ==
    /\ dropdownOpen' = dropdown
    /\ submenuOpen' = FALSE
    /\ hoveredCategory' = 0
    /\ hoveredSubmenuItem' = -1
    /\ activeSearchCategory' = 0

GuiFlagsUnchanged ==
    UNCHANGED <<dropdownOpen, submenuOpen, hoveredCategory,
                hoveredSubmenuItem, activeSearchCategory>>

(* Gui::onMouseButton. A click on a list row calls onModelSelected, which  *)
(* is Application::loadModel: of its effects the Gui's own fields are      *)
(* kept here, the load succeeding or not.                                  *)
onMouseButton ==
    \E click \in {<<"LEFT", "PRESS">>, <<"LEFT", "RELEASE">>,
                  <<"RIGHT", "PRESS">>},
       p \in MousePoints :
    LET button == click[1]
        action == click[2]
        x == p[1]
        y == p[2]
        list == ModelsOf(hoveredCategory, ty1Models, ty2Models)
        filtered == FilteredIndices(list, SearchOf(hoveredCategory,
                                                   ty1Search, ty2Search))
        itemPos == (y - ListTop(submenuRect)) \div 25
    IN
    /\ UNCHANGED <<ty1Search, ty2Search, ty1Models, ty2Models, mouse,
                   hovering, dropdownRect>>
    /\ UNCHANGED <<buildVars, mdgVars, mdlVars, hdrVars, arcVars, startVars,
                   pcVars, skinVars, readVars>>
    /\ UNCHANGED <<archives, activeArchiveIndex, contentModels, models,
                   currentModelArchiveIndex, currentModelName, loadCalls,
                   lastLoaded>>
    /\ IF button # "LEFT" \/ action # "PRESS"
       THEN GuiFlagsUnchanged
            /\ UNCHANGED <<submenuRect, guiCurrentModel, guiCurrentModelName>>
       ELSE IF contains(buttonRect, x, y)
       THEN CloseMenus(~dropdownOpen)
            /\ UNCHANGED <<submenuRect, guiCurrentModel, guiCurrentModelName>>
       ELSE IF submenuOpen /\ contains(submenuRect, x, y)
       THEN IF contains(SearchRect(submenuRect), x, y)
            THEN /\ activeSearchCategory' = hoveredCategory
                 /\ UNCHANGED <<dropdownOpen, submenuOpen, hoveredCategory,
                                hoveredSubmenuItem, submenuRect,
                                guiCurrentModel, guiCurrentModelName>>
            ELSE IF y < ListTop(submenuRect) \/ y >= ListBottom(submenuRect)
            THEN GuiFlagsUnchanged
                 /\ UNCHANGED <<submenuRect, guiCurrentModel,
                                guiCurrentModelName>>
            ELSE /\ submenuRect' =
                        updateSubmenuScrollBounds(submenuRect, submenuOpen,
                            hoveredCategory, ty1Models, ty2Models, ty1Search,
                            ty2Search)
                 /\ IF itemPos >= 0 /\ itemPos < Len(filtered)
                    THEN \E entry \in {list[filtered[itemPos + 1] + 1]} :
                         \E loaded \in BOOLEAN :
                            /\ guiCurrentModel' =
                                  IF loaded
                                  THEN [name |-> entry.name,
                                        archive |-> entry.archiveIndex]
                                  ELSE NullModel
                            /\ guiCurrentModelName' = entry.name
                            /\ CloseMenus(FALSE)
                    ELSE GuiFlagsUnchanged
                         /\ UNCHANGED <<guiCurrentModel, guiCurrentModelName>>
       ELSE IF dropdownOpen /\ contains(dropdownRect, x, y)
       THEN GuiFlagsUnchanged
            /\ UNCHANGED <<submenuRect, guiCurrentModel, guiCurrentModelName>>
       ELSE IF guiCurrentModel # NullModel /\ contains(materialListRect, x, y)
       THEN GuiFlagsUnchanged
            /\ UNCHANGED <<submenuRect, guiCurrentModel, guiCurrentModelName>>
       ELSE CloseMenus(FALSE)
            /\ UNCHANGED <<submenuRect, guiCurrentModel, guiCurrentModelName>>

(* onMouseMove over a category row of the dropdown: the submenu of the     *)
(* category opens unless it is the hovered one already.                    *)
HoverCategory(category) ==
    IF hoveredCategory # category
    THEN /\ hoveredCategory' = category
         /\ submenuOpen' = TRUE
         /\ submenuRect' =
               GuiRect(dropdownRect.x + dropdownRect.width + 2, dropdownRect.y,
                       350,
                       SubmenuHeight(Len(FilteredIndices(
                           ModelsOf(category, ty1Models, ty2Models),
                           SearchOf(category, ty1Search, ty2Search)))))
    ELSE /\ hoveredCategory' = category
         /\ UNCHANGED <<submenuOpen, submenuRect>>

(* Gui::onMouseMove *)
onMouseMove ==
    \E p \in MousePoints :
    LET x == p[1]
        y == p[2]
        inSubmenu == submenuOpen /\ contains(submenuRect, x, y)
        inDropdown == dropdownOpen /\ contains(dropdownRect, x, y)
        filtered == FilteredIndices(
                        ModelsOf(hoveredCategory, ty1Models, ty2Models),
                        SearchOf(hoveredCategory, ty1Search, ty2Search))
        itemPos == (y - ListTop(submenuRect)) \div 25
        relativeY == y - dropdownRect.y
        ty1Row == ty1Models # <<>> /\ relativeY >= 5 /\ relativeY < 5 + 25
        yPos == IF ty1Models # <<>> THEN 5 + 30 ELSE 5
        ty2Row == ty2Models # <<>> /\ relativeY >= yPos
                    /\ relativeY < yPos + 25
    IN
    /\ mouse' = p
    /\ hovering' = (contains(buttonRect, x, y) \/ inDropdown \/ inSubmenu)
    /\ UNCHANGED <<ty1Search, ty2Search, ty1Models, ty2Models, dropdownRect,
                   dropdownOpen>>
    /\ UNCHANGED <<buildVars, appVars, mdgVars, mdlVars, hdrVars, arcVars,
                   startVars, pcVars, skinVars, readVars>>
    /\ IF inSubmenu
       THEN /\ hoveredSubmenuItem' =
                  IF /\ y >= ListTop(submenuRect)
                     /\ y < ListBottom(submenuRect)
                     /\ itemPos >= 0 /\ itemPos < Len(filtered)
                  THEN itemPos ELSE -1
            /\ UNCHANGED <<submenuOpen, hoveredCategory, activeSearchCategory,
                           submenuRect>>
       ELSE IF inDropdown
       THEN /\ hoveredSubmenuItem' = -1
            /\ UNCHANGED activeSearchCategory
            /\ IF ty1Row THEN HoverCategory(1)
               ELSE IF ty2Row THEN HoverCategory(2)
               ELSE UNCHANGED <<submenuOpen, hoveredCategory, submenuRect>>
       ELSE IF dropdownOpen
       THEN /\ submenuOpen' = FALSE
            /\ hoveredCategory' = 0
            /\ hoveredSubmenuItem' = -1
            /\ activeSearchCategory' = 0
            /\ UNCHANGED submenuRect
       ELSE /\ hoveredSubmenuItem' = -1
            /\ UNCHANGED <<submenuOpen, hoveredCategory, activeSearchCategory,
                           submenuRect>>

(* Gui::onScroll: with the submenu open and the cursor on the menu, the    *)
(* scroll bounds are brought up to date; the rest is scroll offsets.       *)
onScroll ==
    LET canScroll == \/ contains(submenuRect, mouse[1], mouse[2])
                     \/ contains(dropdownRect, mouse[1], mouse[2])
                     \/ hovering
    IN
    /\ submenuRect' =
          IF submenuOpen /\ canScroll
          THEN updateSubmenuScrollBounds(submenuRect, submenuOpen,
                   hoveredCategory, ty1Models, ty2Models, ty1Search, ty2Search)
          ELSE submenuRect
    /\ GuiFlagsUnchanged
    /\ UNCHANGED <<ty1Search, ty2Search, ty1Models, ty2Models, mouse,
                   hovering, dropdownRect>>
    /\ UNCHANGED <<buildVars, appVars, mdgVars, mdlVars, hdrVars, arcVars,
                   startVars, pcVars, skinVars, readVars>>

(* search.pop_back() *)
PopBack(s) == SubSeq(s, 1, Len(s) - 1)

(* Gui::onKeyPress *)
onKeyPress ==
    \E key \in {"BACKSPACE", "ESCAPE", "ENTER", "KP_ENTER", "DOWN"} :
    LET editing == activeSearchCategory = 1 \/ activeSearchCategory = 2
        search == SearchOf(activeSearchCategory, ty1Search, ty2Search)
        s1 == IF activeSearchCategory = 1 THEN PopBack(ty1Search)
              ELSE ty1Search
        s2 == IF activeSearchCategory = 1 THEN ty2Search
              ELSE PopBack(ty2Search)
    IN
    /\ UNCHANGED <<dropdownOpen, submenuOpen, hoveredCategory,
                   hoveredSubmenuItem, ty1Models, ty2Models, mouse, hovering,
                   dropdownRect>>
    /\ UNCHANGED <<buildVars, appVars, mdgVars, mdlVars, hdrVars, arcVars,
                   startVars, pcVars, skinVars, readVars>>
    /\ IF ~submenuOpen
       THEN UNCHANGED <<activeSearchCategory, ty1Search, ty2Search,
                        submenuRect>>
       ELSE IF editing /\ key = "BACKSPACE"
       THEN IF search # <<>>
            THEN /\ ty1Search' = s1
                 /\ ty2Search' = s2
                 /\ submenuRect' =
                       updateSubmenuScrollBounds(submenuRect, submenuOpen,
                           hoveredCategory, ty1Models, ty2Models, s1, s2)
                 /\ UNCHANGED activeSearchCategory
            ELSE UNCHANGED <<activeSearchCategory, ty1Search, ty2Search,
                             submenuRect>>
       ELSE IF editing /\ key \in {"ESCAPE", "ENTER", "KP_ENTER"}
       THEN /\ activeSearchCategory' = 0
            /\ UNCHANGED <<ty1Search, ty2Search, submenuRect>>
       ELSE /\ submenuRect' =
                  updateSubmenuScrollBounds(submenuRect, submenuOpen,
                      hoveredCategory, ty1Models, ty2Models, ty1Search,
                      ty2Search)
            /\ UNCHANGED <<activeSearchCategory, ty1Search, ty2Search>>

(* Gui::normalizeSearchChar *)
normalizeSearchChar(c) == IF c = 13 \/ c = 10 \/ c = 9 THEN 32 ELSE c

(* Gui::onChar: 'a', 'B', a tab and a code above the printable range. *)
onChar ==
    \E codepoint \in {97, 66, 9, 200} :
    LET c == normalizeSearchChar(codepoint)
        search == SearchOf(activeSearchCategory, ty1Search, ty2Search)
        s1 == IF activeSearchCategory = 1 THEN Append(ty1Search, c)
              ELSE ty1Search
        s2 == IF activeSearchCategory = 1 THEN ty2Search
              ELSE Append(ty2Search, c)
    IN
    /\ GuiFlagsUnchanged
    /\ UNCHANGED <<ty1Models, ty2Models, mouse, hovering, dropdownRect>>
    /\ UNCHANGED <<buildVars, appVars, mdgVars, mdlVars, hdrVars, arcVars,
                   startVars, pcVars, skinVars, readVars>>
    /\ IF \/ ~submenuOpen
          \/ (activeSearchCategory # 1 /\ activeSearchCategory # 2)
          \/ codepoint < 32 \/ codepoint > 126
          \/ c < 32 \/ c > 126
          \/ Len(search) >= SearchCap
          \/ Len(search) >= MaxSearch
       THEN UNCHANGED <<ty1Search, ty2Search, submenuRect>>
       ELSE /\ ty1Search' = s1
            /\ ty2Search' = s2
            /\ submenuRect' =
                  updateSubmenuScrollBounds(submenuRect, submenuOpen,
                      hoveredCategory, ty1Models, ty2Models, s1, s2)

GuiNext ==
    setModelList \/ onMouseButton \/ onMouseMove \/ onScroll \/ onKeyPress
        \/ onChar

(* The Gui as constructed; dropdownRect is assigned by setModelList only.  *)
GuiInit ==
    /\ BuildInit /\ AppIdle /\ LoadersIdle
    /\ GuiConstructed
    /\ dropdownRect \in IndeterminateRects
    /\ submenuRect = NoRect

GuiSpec == GuiInit /\ [][GuiNext]_vars

(* C29: after any sequence of Gui events, submenuOpen implies              *)
(* dropdownOpen; submenuOpen holds exactly when hoveredCategory is 1 or 2; *)
(* and activeSearchCategory # 0 implies submenuOpen.                       *)
C29_MenuFlags ==
    /\ submenuOpen => dropdownOpen
    /\ submenuOpen <=> hoveredCategory \in {1, 2}
    /\ activeSearchCategory # 0 => submenuOpen

(* A search box has the focus in an open submenu. *)
C29_Witness ==
    /\ dropdownOpen /\ submenuOpen /\ hoveredCategory = 2
    /\ activeSearchCategory = 2

(* C30: whenever a search box has the keyboard focus it is the search box  *)
(* of the submenu that is shown (activeSearchCategory = hoveredCategory),  *)
(* so a character or a backspace edits the search string that filters the *)
(* displayed list.                                                         *)
C30_FocusOnShownSubmenu ==
    activeSearchCategory # 0 => activeSearchCategory = hoveredCategory

-----------------------------------------------------------------------------
(* The format flag of the mdl2 object *)

(* C25: after a load / loadTY2 call that returned true, isMDL3Format is   *)
(* true exactly when the call succeeded through loadTY2MDL3; it is false  *)
(* after loadTY2 succeeded through its legacy fallback on a freshly       *)
(* constructed object, so Content::load<Model> takes the MDL3-metadata    *)
(* branch only for a header parsed as MDL3.                               *)
C25_FormatFlagTracksDecoder ==
    (mdlPhase = "returned" /\ mdlLoaded) =>
        (mdl.isMDL3Format <=> mdl3Returned)

====
